---- MODULE Spec2Model ----
(***************************************************************************)
(* A model of the `midi` crate (Kyle-Gagnon-99/midi): the VLQ codec, the   *)
(* two header parsers, the event kinds (from_bytes / to_bytes /            *)
(* to_bytes_delta_time) and the track and file parsers (Track::new,        *)
(* Track::get_track_list, Midi::new).                                      *)
(*                                                                         *)
(* Conventions.                                                            *)
(*  - A byte buffer is a sequence of naturals in 0..255.  TLA+ sequences    *)
(*    are 1-based: the Rust index data[i] is written At(data, i), which is *)
(*    data[i + 1].                                                         *)
(*  - A Rust Result is a record [tag, err, val] with tag "ok" or "err";    *)
(*    a panic of the Rust code (index out of bounds, slice out of range,   *)
(*    arithmetic overflow in a build with overflow checks) is tag "panic". *)
(*  - overflow_checks is the build profile: TRUE for a build with          *)
(*    overflow checks (cargo's dev and test profiles), FALSE for one       *)
(*    without (cargo's release profile), where integer arithmetic wraps.   *)
(*  - TLC's integers are 32-bit signed, so the inputs keep every u32 of    *)
(*    the program (track sizes, delta-times, lengths) below 2^31.          *)
(*  - Event records carry every field of the Rust structs except           *)
(*    current_time (Instant::now()) and time_duration, which are kept      *)
(*    apart in SpecClock, where they are compared;                         *)
(*    of calculate_time_duration the model keeps ticks_per_quarter_note,   *)
(*    the conditions under which it panics, and the Duration it returns,   *)
(*    computed with the roundings of the f32 operations and of             *)
(*    Duration::from_secs_f32 to whole nanoseconds.                        *)
(***************************************************************************)
EXTENDS Integers, Sequences, FiniteSets, TLC

VARIABLES
    overflow_checks,  \* build profile: TRUE = overflow checks on (panic), FALSE = wrap
    \* --- VLQ codec harness
    vlq_pc,           \* "idle" | "in" | "encoded" | "decoded"
    vlq_value,        \* the u32 handed to from_vlq_to_bytes
    vlq_bytes,        \* its encoding
    vlq_decoded,      \* from_bytes_to_vlq of the encoding
    \* --- header parsers harness
    hdr_pc,           \* "idle" | "in" | "done"
    hdr_bytes,        \* the header bytes handed to the parsers
    md_result,        \* result of MetaData::new
    fh_result,        \* result of MidiFileHeader::new_from_reader
    \* --- event harness
    ev_pc,            \* "idle" | "in" | "parsed" | "serialized"
    ev_data,          \* bytes handed to parse_event
    ev_delta,         \* delta_time handed to parse_event
    ev_result,        \* result of parse_event
    ev_bytes,         \* to_bytes() of the parsed event
    ev_bytes_dt,      \* to_bytes_delta_time() of the parsed event
    \* --- Midi::new, Track::get_track_list, Track::new
    pc,               \* "idle" | "start" | "get_track_list" | "track" | "done"
    midi_file,        \* the bytes of the file (file_contents of Midi::new)
    meta_data,        \* result of MetaData::new(&file_contents[0..14])
    result,           \* what Midi::new returns: ok, err or panic
    list_data,        \* get_track_list: data, the bytes after the header
    list_position,    \* get_track_list: position
    list_tempo,       \* get_track_list: tempo
    track_list,       \* get_track_list: track_list, records [events, track_size]
    t_data,           \* Track::new: data, the declared bytes of the track
    t_size,           \* Track::new: track_size
    t_position,       \* Track::new: position
    t_running_status, \* Track::new: running_status
    t_channel,        \* Track::new: channel
    t_events,         \* Track::new: events
    \* --- ByteReader harness
    rd_pc,            \* "idle" | "run" | "panicked"
    rd_reader,        \* the ByteReader
    rd_op,            \* the last operation, [name, arg] with arg an i128
    rd_result,        \* what the last operation returned
    rd_steps,         \* the number of operations so far
    \* --- two parses of one buffer, and the clock they read
    now,              \* the monotonic clock Instant::now() reads
    tw_pc,            \* "idle" | "in" | "first" | "second"
    tw_data,          \* the bytes handed to NoteOnEvent::from_bytes, twice
    tw_delta,         \* the delta_time handed to it, twice
    tw_first,         \* what the first call returned
    tw_second,        \* what the second call returned
    \* --- calculate_time_duration harness
    td_pc,            \* "idle" | "in" | "done"
    td_delta,         \* the delta_time handed to calculate_time_duration
    td_division,      \* the TimeDivision handed to it
    td_tempo,         \* the tempo handed to it
    td_result         \* what it computed: [panic, ticks_per_quarter_note, time_duration]

vlq_vars == <<vlq_pc, vlq_value, vlq_bytes, vlq_decoded>>
hdr_vars == <<hdr_pc, hdr_bytes, md_result, fh_result>>
ev_vars  == <<ev_pc, ev_data, ev_delta, ev_result, ev_bytes, ev_bytes_dt>>
list_vars  == <<list_data, list_position, list_tempo, track_list>>
track_vars == <<t_data, t_size, t_position, t_running_status, t_channel, t_events>>
file_vars  == <<pc, midi_file, meta_data, result, list_vars, track_vars>>
rd_vars    == <<rd_pc, rd_reader, rd_op, rd_result, rd_steps>>
tw_vars    == <<now, tw_pc, tw_data, tw_delta, tw_first, tw_second>>
td_vars    == <<td_pc, td_delta, td_division, td_tempo, td_result>>
vars     == <<overflow_checks, vlq_vars, hdr_vars, ev_vars, file_vars, rd_vars, tw_vars,
              td_vars>>

-----------------------------------------------------------------------------
(* Bytes, bits and results                                                 *)

Byte == 0..255

\* Rust's data[i] (0-based) on a buffer
At(data, i) == data[i + 1]

\* Rust's &data[from..to] (0-based, to exclusive); the caller checks the range
Slice(data, from, to) == SubSeq(data, from + 1, to)

\* Rust's &data[from..]
SliceFrom(data, from) == SubSeq(data, from + 1, Len(data))

RECURSIVE BitOr(_, _)
BitOr(a, b) ==
    IF a = 0 THEN b
    ELSE IF b = 0 THEN a
    ELSE (IF a % 2 = 1 \/ b % 2 = 1 THEN 1 ELSE 0) + 2 * BitOr(a \div 2, b \div 2)

RECURSIVE BitAnd(_, _)
BitAnd(a, b) ==
    IF a = 0 \/ b = 0 THEN 0
    ELSE (IF a % 2 = 1 /\ b % 2 = 1 THEN 1 ELSE 0) + 2 * BitAnd(a \div 2, b \div 2)

\* (x as u32) << s for 0 <= s < 32: the bits shifted past bit 31 are dropped
ShiftLeft32(x, s) == IF s = 0 THEN x ELSE (x % (2 ^ (32 - s))) * (2 ^ s)

\* u16::from_be_bytes / u32::from_be_bytes
U16(b0, b1) == b0 * 256 + b1
U32(b0, b1, b2, b3) == ((b0 * 256 + b1) * 256 + b2) * 256 + b3

\* u16::to_be_bytes
U16Bytes(v) == <<v \div 256, v % 256>>

\* a byte read as i8 (Rust's `as i8`), and an i8 written as a byte (`as u8`)
AsI8(b) == IF b >= 128 THEN b - 256 ELSE b
AsU8(i) == IF i < 0 THEN i + 256 ELSE i

NoVal == <<>>
Ok(v)     == [tag |-> "ok", err |-> "", val |-> v]
Err(e)    == [tag |-> "err", err |-> e, val |-> NoVal]
Panic     == [tag |-> "panic", err |-> "", val |-> NoVal]
NoResult  == [tag |-> "none", err |-> "", val |-> NoVal]

\* n copies of the byte b
Repeat(b, n) == [i \in 1..n |-> b]

-----------------------------------------------------------------------------
(* src/src/lib.rs                                                          *)

is_msb_zero(byte) == BitAnd(byte, 128) = 0

-----------------------------------------------------------------------------
(* src/src/metaevents.rs: the VLQ codec                                    *)

RECURSIVE from_vlq_to_bytes(_)
from_vlq_to_bytes(delta_time) ==
    LET byte  == delta_time % 128
        value == delta_time \div 128
    IN  IF value > 0
        THEN <<BitOr(byte, 128)>> \o from_vlq_to_bytes(value)
        ELSE <<byte>>

\* a variant of the decoder step that shifts the accumulator instead of the byte
VlqAccumulateShiftingAccumulator(delta_time, byte, shift) ==
    (delta_time % 16777216) * 128 + BitAnd(byte, 127)

\* delta_time |= ((byte & 0b0111_1111) as u32) << shift
VlqAccumulate(delta_time, byte, shift) ==
    BitOr(delta_time, ShiftLeft32(BitAnd(byte, 127), shift))

\* the for loop of from_bytes_to_vlq from index i on; the result is
\* [panic, value, n] with (value, n) the pair the function returns
RECURSIVE VlqLoop(_, _, _, _, _, _)
VlqLoop(track_data, i, delta_time, num_of_bytes, shift, oc) ==
    IF i >= Len(track_data)
    THEN [panic |-> FALSE, value |-> delta_time, n |-> num_of_bytes]
    ELSE IF (shift >= 32 \/ num_of_bytes = 255) /\ oc
    THEN [panic |-> TRUE, value |-> 0, n |-> 0]
    ELSE LET byte == At(track_data, i)
             dt   == VlqAccumulate(delta_time, byte, shift % 32)
             nb   == (num_of_bytes + 1) % 256
         IN  IF BitAnd(byte, 128) = 0
             THEN [panic |-> FALSE, value |-> dt, n |-> nb]
             ELSE VlqLoop(track_data, i + 1, dt, nb, shift + 7, oc)

from_bytes_to_vlq(track_data, oc) == VlqLoop(track_data, 0, 0, 0, 0, oc)

-----------------------------------------------------------------------------
(* src/src/bytereader.rs: ByteReader as a record [data, pos, len].  pos,   *)
(* len and the u64 arguments are 64-bit: an integer v >= 0 of the model is *)
(* the u64 v, and v < 0 is the u64 2^64 + v (u64::MAX is -1), so that      *)
(* wrapping u64 addition and subtraction are the model's + and -.  An i128 *)
(* is a record [hi, lo] for hi * 2^64 + lo, with lo of small magnitude.    *)

\* a <= b and a < b on u64
U64Le(a, b) == IF (a < 0) = (b < 0) THEN a <= b ELSE b < 0
U64Lt(a, b) == a # b /\ U64Le(a, b)

\* the u64 sum a + b does not fit in 64 bits
U64AddOverflows(a, b) == (a < 0 /\ b < 0) \/ ((a < 0) # (b < 0) /\ a + b >= 0)

\* `v as i128` of a u64, and an i128 of small magnitude
I128(hi, lo) == [hi |-> hi, lo |-> lo]
U64AsI128(v) == I128(IF v < 0 THEN 1 ELSE 0, v)

\* Option<T>
Some(v) == [tag |-> "some", err |-> "", val |-> v]
None == [tag |-> "nothing", err |-> "", val |-> NoVal]

\* ByteReader::new
ByteReaderNew(data) == [data |-> data, pos |-> 0, len |-> Len(data)]

\* ByteReader::get_next_byte: the result and the reader afterwards
get_next_byte(reader) ==
    IF U64Lt(reader.pos, reader.len)
    THEN [res    |-> Some(At(reader.data, reader.pos)),
          reader |-> [reader EXCEPT !.pos = reader.pos + 1]]
    ELSE [res |-> None, reader |-> reader]

\* ByteReader::peek
peek(reader) ==
    IF U64Lt(reader.pos, reader.len)
    THEN Ok(At(reader.data, reader.pos))
    ELSE Err("EndOfData")

\* ByteReader::get_next_bytes: the result and the reader afterwards.  The sum
\* self.pos + num_bytes panics when it overflows in a build with overflow checks
\* and wraps in one without, where the slice data[pos..pos + num_bytes] then
\* panics for an end before its start.
get_next_bytes(reader, num_bytes, oc) ==
    IF U64AddOverflows(reader.pos, num_bytes) /\ oc
    THEN [res |-> Panic, reader |-> reader]
    ELSE IF U64Le(reader.pos + num_bytes, reader.len)
    THEN IF U64Le(reader.pos, reader.pos + num_bytes)
         THEN [res    |-> Ok(Slice(reader.data, reader.pos, reader.pos + num_bytes)),
               reader |-> [reader EXCEPT !.pos = reader.pos + num_bytes]]
         ELSE [res |-> Panic, reader |-> reader]
    ELSE [res |-> Err("EndOfData"), reader |-> reader]

\* ByteReader::seek
seek(reader, pos) == [reader EXCEPT !.pos = pos]

\* ByteReader::move_pos: the result and the reader afterwards.  new_pos is an
\* i128; `new_pos as u64` keeps its low 64 bits.
move_pos(reader, num_bytes) ==
    LET new_pos == I128(U64AsI128(reader.pos).hi + num_bytes.hi, reader.pos + num_bytes.lo)
    IN  IF new_pos.hi < 0 \/ (new_pos.hi = 0 /\ new_pos.lo < 0)
        THEN [res |-> Err("InvalidDataBounds"), reader |-> reader]
        ELSE IF U64Lt(reader.len, new_pos.lo)
        THEN [res |-> Err("InvalidDataBounds"), reader |-> reader]
        ELSE [res |-> Ok(NoVal), reader |-> [reader EXCEPT !.pos = new_pos.lo]]

\* ByteReader::num_bytes_remaining: self.len - self.pos on u64
num_bytes_remaining(reader, oc) ==
    IF U64Lt(reader.len, reader.pos) /\ oc THEN Panic ELSE Ok(reader.len - reader.pos)

\* ByteReader::get_next_u32
get_next_u32(reader, oc) ==
    LET r == get_next_bytes(reader, 4, oc)
    IN  IF r.res.tag = "ok"
        THEN [res    |-> Ok(U32(r.res.val[1], r.res.val[2], r.res.val[3], r.res.val[4])),
              reader |-> r.reader]
        ELSE r

\* ByteReader::get_next_u16
get_next_u16(reader, oc) ==
    LET r == get_next_bytes(reader, 2, oc)
    IN  IF r.res.tag = "ok"
        THEN [res |-> Ok(U16(r.res.val[1], r.res.val[2])), reader |-> r.reader]
        ELSE r

-----------------------------------------------------------------------------
(* src/src/metadata.rs: MetaData::new, the header parser Midi::new uses    *)

MThd == <<77, 84, 104, 100>>   \* "MThd" = 4D 54 68 64
MTrk == <<77, 84, 114, 107>>   \* "MTrk" = 4D 54 72 6B

PulsesPerQuarterNote(pulses) ==
    [kind |-> "PulsesPerQuarterNote", pulses |-> pulses, fps |-> 0, ticks_per_frame |-> 0]
SMPTE(fps, ticks_per_frame) ==
    [kind |-> "SMPTE", pulses |-> 0, fps |-> fps, ticks_per_frame |-> ticks_per_frame]

FileFormatName(format) ==
    CASE format = 0 -> "SINGLE_TRACK"
      [] format = 1 -> "MULTI_TRACK"
      [] OTHER      -> "MULTI_SONG"

\* validate_header_chunk_bytes on the first four bytes
validate_header_chunk_bytes(four) == IF four = MThd THEN Ok(NoVal) ELSE Err("InvalidHeader")

validate_fps_byte(fps_byte) ==
    IF fps_byte \in {24, 25, 29, 30} THEN Ok(NoVal) ELSE Err("InvalidFPS")

\* MetaData::get_num_of_tracks on bytes 10..12
get_num_of_tracks(file_contents) ==
    LET num_of_tracks == U16(At(file_contents, 10), At(file_contents, 11))
    IN  IF num_of_tracks = 0 THEN Err("InvalidNumOfTracks") ELSE Ok(num_of_tracks)

\* MetaData::get_file_format on bytes 8..10
get_file_format(file_contents) ==
    LET format_bytes == U16(At(file_contents, 8), At(file_contents, 9))
    IN  IF format_bytes \in {0, 1, 2}
        THEN Ok(FileFormatName(format_bytes))
        ELSE Err("InvalidFileFormat")

\* MetaData::get_time_division on bytes 12..14.  smp_timecode.abs() overflows for
\* the i8 -128: a panic with overflow checks, -128 (128 as u8) without.
get_time_division(file_contents, oc) ==
    LET b0               == At(file_contents, 12)
        b1               == At(file_contents, 13)
        smpte_frame_rate == AsI8(b0)
        smp_timecode     == BitAnd(b0, 127) + (-128)
        fps              == IF smp_timecode = -128 THEN 128 ELSE -smp_timecode
    IN  IF smpte_frame_rate < 0
        THEN IF smp_timecode = -128 /\ oc THEN Panic
             ELSE IF validate_fps_byte(fps).tag = "err" THEN validate_fps_byte(fps)
             ELSE Ok(SMPTE(fps, b1))
        ELSE Ok(PulsesPerQuarterNote(U16(b0, b1)))

\* MetaData::new: the magic, then the track count, the format and the division, in
\* that order; an index past the end of file_contents panics
MetaDataNew(file_contents, oc) ==
    IF Len(file_contents) < 4 THEN Panic
    ELSE IF validate_header_chunk_bytes(Slice(file_contents, 0, 4)).tag = "err"
    THEN Err("InvalidHeader")
    ELSE IF Len(file_contents) < 12 THEN Panic
    ELSE IF get_num_of_tracks(file_contents).tag = "err" THEN Err("InvalidNumOfTracks")
    ELSE IF get_file_format(file_contents).tag = "err" THEN Err("InvalidFileFormat")
    ELSE IF Len(file_contents) < 14 THEN Panic
    ELSE IF get_time_division(file_contents, oc).tag # "ok"
    THEN get_time_division(file_contents, oc)
    ELSE Ok([num_of_tracks |-> get_num_of_tracks(file_contents).val,
             file_format   |-> get_file_format(file_contents).val,
             time_division |-> get_time_division(file_contents, oc).val])

-----------------------------------------------------------------------------
(* src/src/midi/file_header/mod.rs: MidiFileHeader::new_from_reader        *)

\* MidiFileHeader::format_from_u16
format_from_u16(format) ==
    CASE format = 0 -> Ok("SingleTrack")
      [] format = 1 -> Ok("MultiTrack")
      [] format = 2 -> Ok("MultiSong")
      [] OTHER      -> Err("InvalidFileFormat")

\* MidiFileHeader::new_from_reader: [res, reader]
new_from_reader(reader, oc) ==
    LET header == get_next_bytes(reader, 4, oc)
    IN  IF header.res.tag # "ok" THEN header
        ELSE IF header.res.val # MThd
        THEN [res |-> Err("InvalidHeader"), reader |-> header.reader]
        ELSE
    LET header_length == get_next_u32(header.reader, oc)
    IN  IF header_length.res.tag # "ok" THEN header_length
        ELSE IF header_length.res.val # 6
        THEN [res |-> Err("InvalidDataBounds"), reader |-> header_length.reader]
        ELSE
    LET format == get_next_u16(header_length.reader, oc)
    IN  IF format.res.tag # "ok" THEN format
        ELSE IF format_from_u16(format.res.val).tag = "err"
        THEN [res |-> Err("InvalidFileFormat"), reader |-> format.reader]
        ELSE
    LET num_tracks == get_next_u16(format.reader, oc)
    IN  IF num_tracks.res.tag # "ok" THEN num_tracks
        ELSE IF format_from_u16(format.res.val).val = "SingleTrack" /\ num_tracks.res.val # 1
        THEN [res |-> Err("InvalidNumOfTracks"), reader |-> num_tracks.reader]
        ELSE [res    |-> Ok([format     |-> format_from_u16(format.res.val).val,
                             num_tracks |-> num_tracks.res.val,
                             division   |-> 0]),
              reader |-> num_tracks.reader]

-----------------------------------------------------------------------------
(* src/src/metaevents.rs: time and tempo helpers                           *)

\* an f32 that is zero or positive, finite and normal: the value m * 2^e with
\* a 24-bit significand 2^23 <= m < 2^24, or zero (m = 0)
F32(m, e) == [m |-> m, e |-> e]

F32Zero == F32(0, 0)

\* the number of binary digits of a natural
RECURSIVE BitLength(_)
BitLength(n) == IF n = 0 THEN 0 ELSE 1 + BitLength(n \div 2)

\* the end of an f32 operation: the 24 leading bits q of the exact result at
\* exponent e, rounded up by one unit in the last place if up
F32Round(q, e, up) ==
    IF ~up THEN F32(q, e)
    ELSE IF q + 1 = 16777216 THEN F32(8388608, e + 1)
    ELSE F32(q + 1, e)

\* round to nearest, ties to even: whether the quotient q with remainder r out
\* of unit goes up
RoundsUp(q, r, unit) == 2 * r > unit \/ (2 * r = unit /\ q % 2 = 1)

\* `n as f32` for an unsigned integer n: exact below 2^24, rounded to 24 bits
\* from there
IntAsF32(n) ==
    IF n = 0 THEN F32Zero
    ELSE IF n < 16777216 THEN F32(n * 2^(24 - BitLength(n)), BitLength(n) - 24)
    ELSE F32Round(n \div 2^(BitLength(n) - 24), BitLength(n) - 24,
                  RoundsUp(n \div 2^(BitLength(n) - 24),
                           n % 2^(BitLength(n) - 24), 2^(BitLength(n) - 24)))

\* k more binary digits of a quotient: <<q, r>> becomes the quotient and the
\* remainder of (q * d + r) * 2^k by d
RECURSIVE LongDivision(_, _, _, _)
LongDivision(q, r, d, k) ==
    IF k = 0 THEN [q |-> q, r |-> r]
    ELSE IF 2 * r >= d THEN LongDivision(2 * q + 1, 2 * r - d, d, k - 1)
    ELSE LongDivision(2 * q, 2 * r, d, k - 1)

F32DivRound(qr, d, e) == F32Round(qr.q, e, RoundsUp(qr.q, qr.r, d))

\* the f32 quotient x / y of two f32 (y not zero), correctly rounded
F32Div(x, y) ==
    IF x.m = 0 THEN F32Zero
    ELSE IF x.m >= y.m
    THEN F32DivRound(LongDivision(1, x.m - y.m, y.m, 23), y.m, x.e - y.e - 23)
    ELSE F32DivRound(LongDivision(0, x.m, y.m, 24), y.m, x.e - y.e - 24)

\* the product of two naturals below 2^24, as hi * 2^24 + lo with lo < 2^24
Mul24(x, y) ==
    LET a == x \div 4096
        b == x % 4096
        c == y \div 4096
        d == y % 4096
        low == ((a * d + b * c) % 4096) * 4096 + b * d
    IN  [hi |-> a * c + (a * d + b * c) \div 4096 + low \div 16777216,
         lo |-> low % 16777216]

F32MulRound(p, e) ==
    IF p.hi >= 8388608
    THEN F32Round(p.hi, e + 24, RoundsUp(p.hi, p.lo, 16777216))
    ELSE F32Round(2 * p.hi + p.lo \div 8388608, e + 23,
                  RoundsUp(2 * p.hi + p.lo \div 8388608, p.lo % 8388608, 8388608))

\* the f32 product x * y of two f32, correctly rounded
F32Mul(x, y) ==
    IF x.m = 0 \/ y.m = 0 THEN F32Zero
    ELSE F32MulRound(Mul24(x.m, y.m), x.e + y.e)

\* a Duration: whole seconds and the nanoseconds of the second begun
Duration(secs, nanos) == [secs |-> secs, nanos |-> nanos]

ZeroDuration == Duration(0, 0)

\* x / 2^g for x = hi * 2^24 + lo and 1 <= g <= 45, rounded to nearest, ties
\* to even
ShiftRound(x, g) ==
    IF g <= 24
    THEN x.hi * 2^(24 - g) + x.lo \div 2^g
         + (IF RoundsUp(x.hi * 2^(24 - g) + x.lo \div 2^g, x.lo % 2^g, 2^g)
            THEN 1 ELSE 0)
    ELSE x.hi \div 2^(g - 24)
         + (IF \/ x.hi % 2^(g - 24) > 2^(g - 25)
               \/ /\ x.hi % 2^(g - 24) = 2^(g - 25)
                  /\ (x.lo > 0 \/ (x.hi \div 2^(g - 24)) % 2 = 1)
            THEN 1 ELSE 0)

\* the nanoseconds in frac / 2^f seconds, frac < 2^24 and frac <= 2^f, rounded
\* to nearest, ties to even: frac * 10^9 / 2^f = frac * 5^9 / 2^(f - 9)
Nanos(frac, f) ==
    IF f <= 9 THEN frac * (1000000000 \div 2^f)
    ELSE ShiftRound(Mul24(frac, 1953125), f - 9)

\* Duration::from_secs_f32 of a finite f32 that is not negative: the seconds
\* are the integer part, the nanoseconds the fraction rounded to nearest, and
\* an f32 below 2^-31 is no time at all
from_secs_f32(secs) ==
    IF secs.m = 0 \/ secs.e < -54 THEN ZeroDuration
    ELSE IF secs.e >= 0 THEN Duration(secs.m * 2^secs.e, 0)
    ELSE IF secs.e > -24
    THEN Duration(secs.m \div 2^(-secs.e), Nanos(secs.m % 2^(-secs.e), -secs.e))
    ELSE Duration(0, Nanos(secs.m, -secs.e))

\* calculate_time_duration: [panic, ticks_per_quarter_note, time_duration].
\* fps * ticks_per_frame is a u8 product; 60_000_000 / tempo is a u32 division
\* and panics for tempo 0; with zero ticks per quarter the f32 quotient is
\* infinite or NaN and Duration::from_secs_f32 panics.  The Duration returned is
\* from_secs_f32 of the f32 product of the f32 quotients delta_time /
\* ticks_per_quarter_note and microseconds_per_quarter_note / 1_000_000.0.
calculate_time_duration(delta_time, time_division, tempo, oc) ==
    LET product == time_division.fps * time_division.ticks_per_frame
        ticks_per_quarter_note ==
            IF time_division.kind = "PulsesPerQuarterNote"
            THEN time_division.pulses
            ELSE (product % 256) \div 4
        panic == \/ (time_division.kind = "SMPTE" /\ product > 255 /\ oc)
                 \/ tempo = 0
                 \/ ticks_per_quarter_note = 0
    IN  [panic |-> panic,
         ticks_per_quarter_note |-> ticks_per_quarter_note,
         time_duration |->
             IF panic THEN ZeroDuration
             ELSE from_secs_f32(
                      F32Mul(F32Div(IntAsF32(delta_time),
                                    IntAsF32(ticks_per_quarter_note)),
                             F32Div(IntAsF32(60000000 \div tempo),
                                    IntAsF32(1000000))))]

\* microseconds_to_bpm: the f64 quotient 60_000_000 / microseconds, kept as the
\* exact fraction num / den (den = 0 is the f64 +infinity)
microseconds_to_bpm(microseconds) == [num |-> 60000000, den |-> microseconds]

\* bpm_to_microseconds: (60_000_000.0 / bpm).round() as u32, on the exact fraction
\* (rounding half away from zero; 60_000_000 / infinity is 0)
bpm_to_microseconds(bpm) ==
    IF bpm.den = 0 THEN 0
    ELSE LET whole == (60000000 \div bpm.num) * bpm.den
             rest  == (60000000 % bpm.num) * bpm.den
         IN  whole + (rest \div bpm.num) + (IF 2 * (rest % bpm.num) >= bpm.num THEN 1 ELSE 0)

\* String::from_utf8 accepts exactly the well-formed UTF-8 byte sequences:
\* every byte that is no continuation byte (0x80..0xBF) starts a character, is
\* followed by as many continuation bytes as it announces and by no more, and
\* the first byte starts a character
IsCont(b) == b >= 128 /\ b <= 191

\* the length a leading byte announces; 0 for a byte that cannot lead
Utf8Width(b) ==
    IF b < 128 THEN 1
    ELSE IF b >= 194 /\ b <= 223 THEN 2
    ELSE IF b >= 224 /\ b <= 239 THEN 3
    ELSE IF b >= 240 /\ b <= 244 THEN 4
    ELSE 0

\* the range of the second byte, which excludes overlong forms, surrogates and
\* code points above U+10FFFF
Utf8SecondOk(b0, b1) ==
    /\ (b0 = 224 => b1 >= 160)
    /\ (b0 = 237 => b1 <= 159)
    /\ (b0 = 240 => b1 >= 144)
    /\ (b0 = 244 => b1 <= 143)

IsUtf8(bytes) ==
    LET n == Len(bytes)
    IN  /\ (n > 0 => ~IsCont(bytes[1]))
        /\ \A i \in 1..n :
              ~IsCont(bytes[i]) =>
                  LET w == Utf8Width(bytes[i])
                  IN  /\ w > 0
                      /\ i + w - 1 <= n
                      /\ \A j \in (i + 1)..(i + w - 1) : IsCont(bytes[j])
                      /\ (w > 1 => Utf8SecondOk(bytes[i], bytes[i + 1]))
                      /\ (i + w <= n => ~IsCont(bytes[i + w]))

\* get_utf8_from_bytes
get_utf8_from_bytes(data) == IF IsUtf8(data) THEN Ok(data) ELSE Err("FromUtf8Error")

-----------------------------------------------------------------------------
(* The event structs.  One record shape for every kind:                    *)
(*   kind           the struct                                             *)
(*   channel        the channel field (0 for a meta-event: get_channel())  *)
(*   event_size     the event_size field                                   *)
(*   delta_time     the delta_time field                                   *)
(*   data           the payload fields in declaration order; the text or   *)
(*                  data bytes of a text or sequencer-specific event       *)
(*   text_size      text_size / data_length of those events                *)
(*   tempo          SetTempoEvent.tempo                                    *)
(*   key_signature  KeySignatureEvent.key_signature                        *)

NoTempo == [num |-> 0, den |-> 1]
NoKeySignature ==
    [key |-> "C", accidental |-> "Natural", mode |-> "Major", num_of_accidentals |-> 0]

MkEvent(kind, channel, event_size, delta_time, data) ==
    [kind |-> kind, channel |-> channel, event_size |-> event_size,
     delta_time |-> delta_time, data |-> data, text_size |-> 0,
     tempo |-> NoTempo, key_signature |-> NoKeySignature]

ChannelVoiceKinds ==
    {"NoteOff", "NoteOn", "PolyphonicKeyPressure", "ControlChange", "ProgramChange",
     "ChannelPressure", "PitchBendChange"}
TextKinds ==
    {"Text", "CopyRightNotice", "TrackName", "InstrumentName", "Lyric", "Marker", "CuePoint"}

\* src/src/messages.rs
CHANNEL_MASK == 15
EVENT_MASK == 240

\* the `const ..._SIZE` of each event module
NOTE_OFF_SIZE == 3
NOTE_ON_SIZE == 3
POLYPHONIC_KEY_PRESSURE_SIZE == 3
CONTROL_CHANGE_SIZE == 3
PROGRAM_CHANGE_SIZE == 2
CHANNEL_PRESSURE_SIZE == 2
PITCH_BEND_CHANGE_SIZE == 3
SEQUENCE_NUMBER_SIZE == 0
MIDI_CHANNEL_PREFIX_SIZE == 4
MIDI_PORT_SIZE == 4
END_OF_TRACK_SIZE == 3
SET_TEMPO_SIZE == 6
SMPTE_OFFSET_SIZE == 8
TIME_SIGNATURE_SIZE == 7
KEY_SIGNATURE_SIZE == 5

METAEVENT_BYTE == 255

\* Event::event_type: the MIDI_EVENT_TYPE / METAEVENT_BYTE_TYPE of each module
event_type(event) ==
    CASE event.kind = "NoteOff"               -> 128   \* 0x80
      [] event.kind = "NoteOn"                -> 144   \* 0x90
      [] event.kind = "PolyphonicKeyPressure" -> 160   \* 0xA0
      [] event.kind = "ControlChange"         -> 176   \* 0xB0
      [] event.kind = "ProgramChange"         -> 192   \* 0xC0
      [] event.kind = "ChannelPressure"       -> 208   \* 0xD0
      [] event.kind = "PitchBendChange"       -> 160   \* 0xA0 (pitch_bend_change.rs:15)
      [] event.kind = "SequenceNumber"        -> 32    \* 0x20 (sequence_number.rs:12)
      [] event.kind = "Text"                  -> 1
      [] event.kind = "CopyRightNotice"       -> 2
      [] event.kind = "TrackName"             -> 3
      [] event.kind = "InstrumentName"        -> 4
      [] event.kind = "Lyric"                 -> 5
      [] event.kind = "Marker"                -> 6
      [] event.kind = "CuePoint"              -> 7
      [] event.kind = "MidiChannelPrefix"     -> 32    \* 0x20
      [] event.kind = "MidiPort"              -> 33    \* 0x21
      [] event.kind = "EndOfTrack"            -> 47    \* 0x2F
      [] event.kind = "SetTempo"              -> 81    \* 0x51
      [] event.kind = "SMPTEOffset"           -> 84    \* 0x54
      [] event.kind = "TimeSignature"         -> 88    \* 0x58
      [] event.kind = "KeySignature"          -> 89    \* 0x59
      [] event.kind = "SequencerSpecific"     -> 127   \* 0x7F

\* Event::is_running_status_allowed
is_running_status_allowed(event) ==
    event.kind \in {"NoteOff", "NoteOn", "PolyphonicKeyPressure", "ControlChange",
                    "ProgramChange", "PitchBendChange"}

\* Event::get_channel, get_event_size, get_delta_time
get_channel(event) == event.channel
get_event_size(event) == event.event_size
get_delta_time(event) == event.delta_time

-----------------------------------------------------------------------------
(* src/src/messages/*.rs: the channel voice events                         *)

\* FromBytes::from_bytes of the three-byte kinds (NoteOff, NoteOn,
\* PolyphonicKeyPressure, ControlChange, PitchBendChange)
ThreeByteFromBytes(kind, size, data, delta_time, time_division, tempo, oc) ==
    IF calculate_time_duration(delta_time, time_division, tempo, oc).panic THEN Panic
    ELSE IF Len(data) < 3 THEN Panic
    ELSE Ok(MkEvent(kind, BitAnd(At(data, 0), CHANNEL_MASK), size, delta_time,
                    <<At(data, 1), At(data, 2)>>))

\* FromBytes::from_bytes of the two-byte kinds (ChannelPressure, and
\* ProgramChange, whose module is not among the sources)
TwoByteFromBytes(kind, size, data, delta_time, time_division, tempo, oc) ==
    IF calculate_time_duration(delta_time, time_division, tempo, oc).panic THEN Panic
    ELSE IF Len(data) < 2 THEN Panic
    ELSE Ok(MkEvent(kind, BitAnd(At(data, 0), CHANNEL_MASK), size, delta_time,
                    <<At(data, 1)>>))

NoteOffFromBytes(data, delta_time, time_division, tempo, oc) ==
    ThreeByteFromBytes("NoteOff", NOTE_OFF_SIZE, data, delta_time, time_division, tempo, oc)
NoteOnFromBytes(data, delta_time, time_division, tempo, oc) ==
    ThreeByteFromBytes("NoteOn", NOTE_ON_SIZE, data, delta_time, time_division, tempo, oc)
PolyphonicKeyPressureFromBytes(data, delta_time, time_division, tempo, oc) ==
    ThreeByteFromBytes("PolyphonicKeyPressure", POLYPHONIC_KEY_PRESSURE_SIZE, data,
                       delta_time, time_division, tempo, oc)
ControlChangeFromBytes(data, delta_time, time_division, tempo, oc) ==
    ThreeByteFromBytes("ControlChange", CONTROL_CHANGE_SIZE, data, delta_time,
                       time_division, tempo, oc)
PitchBendChangeFromBytes(data, delta_time, time_division, tempo, oc) ==
    ThreeByteFromBytes("PitchBendChange", PITCH_BEND_CHANGE_SIZE, data, delta_time,
                       time_division, tempo, oc)
ChannelPressureFromBytes(data, delta_time, time_division, tempo, oc) ==
    TwoByteFromBytes("ChannelPressure", CHANNEL_PRESSURE_SIZE, data, delta_time,
                     time_division, tempo, oc)
ProgramChangeFromBytes(data, delta_time, time_division, tempo, oc) ==
    TwoByteFromBytes("ProgramChange", PROGRAM_CHANGE_SIZE, data, delta_time,
                     time_division, tempo, oc)

\* NoteOnEvent::new_from_status: the note and velocity are data[0] and data[1]
NoteOnNewFromStatus(data, delta_time, channel, time_division, tempo, oc) ==
    IF calculate_time_duration(delta_time, time_division, tempo, oc).panic THEN Panic
    ELSE IF Len(data) < 2 THEN Panic
    ELSE Ok(MkEvent("NoteOn", channel, NOTE_ON_SIZE, delta_time, <<At(data, 0), At(data, 1)>>))

\* a struct built with `current_time: Instant::now()`: the event and the reading
\* of the clock
WithCurrentTime(res, time_duration, instant) ==
    IF res.tag = "ok"
    THEN Ok([event |-> res.val, current_time |-> instant,
             time_duration |-> time_duration])
    ELSE res

\* NoteOnEvent::from_bytes with the fields time_duration, from
\* calculate_time_duration, and current_time, which it fills from the clock
NoteOnEventFromBytes(data, delta_time, time_division, tempo, oc, instant) ==
    WithCurrentTime(NoteOnFromBytes(data, delta_time, time_division, tempo, oc),
                    calculate_time_duration(delta_time, time_division, tempo,
                                            oc).time_duration,
                    instant)

\* #[derive(PartialEq)] of NoteOnEvent: every field, current_time and
\* time_duration among them
NoteOnEventEq(a, b) ==
    /\ a.event = b.event
    /\ a.current_time = b.current_time
    /\ a.time_duration = b.time_duration

\* ControlChangeEvent::new_from_status: it takes no delta_time and stores 0
ControlChangeNewFromStatus(data, channel, time_division, tempo, oc) ==
    IF calculate_time_duration(0, time_division, tempo, oc).panic THEN Panic
    ELSE IF Len(data) < 2 THEN Panic
    ELSE Ok(MkEvent("ControlChange", channel, CONTROL_CHANGE_SIZE, 0,
                    <<At(data, 0), At(data, 1)>>))

-----------------------------------------------------------------------------
(* src/src/metaevents/*.rs: the meta-events                                *)

\* SequenceNumber::from_bytes: the buffer must have SEQUENCE_NUMBER_SIZE (0)
\* bytes, and then data[1] is read from the empty buffer
SequenceNumberFromBytes(data, delta_time, time_division, tempo, oc) ==
    IF Len(data) # SEQUENCE_NUMBER_SIZE THEN Err("InvalidEventBytes")
    ELSE Panic

\* from_bytes of the text events (copyright_notice.rs, track_name.rs, marker.rs;
\* text.rs, instrument_name.rs, lyric.rs and cue_point.rs are not among the
\* sources and follow the same shape) and, with utf8 = FALSE, of
\* SequencerSpecificEvent.  event_size is a u8: 2 + num_of_bytes + (len as u8).
LengthPrefixedFromBytes(kind, utf8, data, delta_time, time_division, tempo, oc) ==
    IF calculate_time_duration(delta_time, time_division, tempo, oc).panic THEN Panic
    ELSE IF Len(data) < 2 THEN Panic
    ELSE LET rest == SliceFrom(data, 2)
             vlq  == from_bytes_to_vlq(rest, oc)
         IN  IF vlq.panic THEN Panic
             ELSE IF vlq.n + vlq.value > Len(rest) THEN Panic
             ELSE LET payload == Slice(rest, vlq.n, vlq.n + vlq.value)
                      size    == 2 + vlq.n + (Len(payload) % 256)
                  IN  IF utf8 /\ ~IsUtf8(payload) THEN Err("FromUtf8Error")
                      ELSE IF size > 255 /\ oc THEN Panic
                      ELSE Ok([MkEvent(kind, 0, size % 256, delta_time, payload)
                                 EXCEPT !.text_size = vlq.value])

TextFromBytes(data, delta_time, time_division, tempo, oc) ==
    LengthPrefixedFromBytes("Text", TRUE, data, delta_time, time_division, tempo, oc)
CopyRightNoticeFromBytes(data, delta_time, time_division, tempo, oc) ==
    LengthPrefixedFromBytes("CopyRightNotice", TRUE, data, delta_time, time_division, tempo, oc)
TrackNameFromBytes(data, delta_time, time_division, tempo, oc) ==
    LengthPrefixedFromBytes("TrackName", TRUE, data, delta_time, time_division, tempo, oc)
InstrumentNameFromBytes(data, delta_time, time_division, tempo, oc) ==
    LengthPrefixedFromBytes("InstrumentName", TRUE, data, delta_time, time_division, tempo, oc)
LyricFromBytes(data, delta_time, time_division, tempo, oc) ==
    LengthPrefixedFromBytes("Lyric", TRUE, data, delta_time, time_division, tempo, oc)
MarkerFromBytes(data, delta_time, time_division, tempo, oc) ==
    LengthPrefixedFromBytes("Marker", TRUE, data, delta_time, time_division, tempo, oc)
CuePointFromBytes(data, delta_time, time_division, tempo, oc) ==
    LengthPrefixedFromBytes("CuePoint", TRUE, data, delta_time, time_division, tempo, oc)
SequencerSpecificFromBytes(data, delta_time, time_division, tempo, oc) ==
    LengthPrefixedFromBytes("SequencerSpecific", FALSE, data, delta_time, time_division,
                            tempo, oc)

\* from_bytes of the fixed-size meta-events that copy payload bytes:
\* data = &data[3..], then data[0] .. data[count - 1]
FixedMetaFromBytes(kind, size, count, data, delta_time, time_division, tempo, oc) ==
    IF calculate_time_duration(delta_time, time_division, tempo, oc).panic THEN Panic
    ELSE IF Len(data) < 3 + count THEN Panic
    ELSE Ok(MkEvent(kind, 0, size, delta_time, Slice(data, 3, 3 + count)))

MidiChannelPrefixFromBytes(data, delta_time, time_division, tempo, oc) ==
    FixedMetaFromBytes("MidiChannelPrefix", MIDI_CHANNEL_PREFIX_SIZE, 1, data, delta_time,
                       time_division, tempo, oc)
MidiPortFromBytes(data, delta_time, time_division, tempo, oc) ==
    FixedMetaFromBytes("MidiPort", MIDI_PORT_SIZE, 1, data, delta_time, time_division,
                       tempo, oc)
SMPTEOffsetFromBytes(data, delta_time, time_division, tempo, oc) ==
    FixedMetaFromBytes("SMPTEOffset", SMPTE_OFFSET_SIZE, 5, data, delta_time, time_division,
                       tempo, oc)

\* EndOfTrack::from_bytes reads no byte of the buffer
EndOfTrackFromBytes(data, delta_time, time_division, tempo, oc) ==
    IF calculate_time_duration(delta_time, time_division, tempo, oc).panic THEN Panic
    ELSE Ok(MkEvent("EndOfTrack", 0, END_OF_TRACK_SIZE, delta_time, <<>>))

\* SetTempoEvent::from_bytes: tempo = microseconds_to_bpm(u32 of the three bytes)
SetTempoFromBytes(data, delta_time, time_division, tempo, oc) ==
    IF calculate_time_duration(delta_time, time_division, tempo, oc).panic THEN Panic
    ELSE IF Len(data) < 6 THEN Panic
    ELSE LET tempo_in_micro == U32(0, At(data, 3), At(data, 4), At(data, 5))
         IN  Ok([MkEvent("SetTempo", 0, SET_TEMPO_SIZE, delta_time, <<>>)
                   EXCEPT !.tempo = microseconds_to_bpm(tempo_in_micro)])

\* TimeSignatureEvent::from_bytes: denominator = 2_u8.pow(data[1]); the fields
\* are numerator, denominator, metronome_clicks, num_of_32nd_notes_per_quarter
TimeSignatureFromBytes(data, delta_time, time_division, tempo, oc) ==
    IF calculate_time_duration(delta_time, time_division, tempo, oc).panic THEN Panic
    ELSE IF Len(data) < 5 THEN Panic
    ELSE IF At(data, 4) >= 8 /\ oc THEN Panic
    ELSE IF Len(data) < 7 THEN Panic
    ELSE LET denominator == IF At(data, 4) >= 8 THEN 0 ELSE 2 ^ At(data, 4)
         IN  Ok(MkEvent("TimeSignature", 0, TIME_SIGNATURE_SIZE, delta_time,
                        <<At(data, 3), denominator, At(data, 5), At(data, 6)>>))

\* get_key_signature_from_num_of_accidentals, on the byte read as i8
KeyOfAccidentals ==
    [x \in -7..7 |->
        CASE x = 0  -> <<"C", "Natural">>
          [] x = 1  -> <<"G", "Natural">>
          [] x = 2  -> <<"D", "Natural">>
          [] x = 3  -> <<"A", "Natural">>
          [] x = 4  -> <<"E", "Natural">>
          [] x = 5  -> <<"B", "Natural">>
          [] x = 6  -> <<"F", "Sharp">>
          [] x = 7  -> <<"C", "Sharp">>
          [] x = -1 -> <<"F", "Natural">>
          [] x = -2 -> <<"B", "Flat">>
          [] x = -3 -> <<"E", "Flat">>
          [] x = -4 -> <<"A", "Flat">>
          [] x = -5 -> <<"D", "Flat">>
          [] x = -6 -> <<"G", "Flat">>
          [] x = -7 -> <<"C", "Flat">>]

\* a table lookup that takes every count for one of a key: counts outside -7..7
\* give C
KeySignatureOfAnyCount(byte) ==
    Ok(KeyOfAccidentals[IF byte \in -7..7 THEN byte ELSE 0])

get_key_signature_from_num_of_accidentals(byte) ==
    IF byte \in -7..7 THEN Ok(KeyOfAccidentals[byte]) ELSE Err("InvalidKeySignature")

\* an inverse that knows the sharp keys only: every other key counts 0
NumOfAccidentalsOfSharpKeys(key, accidental) ==
    IF \E x \in 0..7 : KeyOfAccidentals[x] = <<key, accidental>>
    THEN CHOOSE x \in 0..7 : KeyOfAccidentals[x] = <<key, accidental>>
    ELSE 0

get_num_of_accidentals_from_key_signature(key, accidental) ==
    CASE <<key, accidental>> = <<"C", "Natural">> -> 0
      [] <<key, accidental>> = <<"G", "Natural">> -> 1
      [] <<key, accidental>> = <<"D", "Natural">> -> 2
      [] <<key, accidental>> = <<"A", "Natural">> -> 3
      [] <<key, accidental>> = <<"E", "Natural">> -> 4
      [] <<key, accidental>> = <<"B", "Natural">> -> 5
      [] <<key, accidental>> = <<"F", "Sharp">>   -> 6
      [] <<key, accidental>> = <<"C", "Sharp">>   -> 7
      [] <<key, accidental>> = <<"F", "Natural">> -> -1
      [] <<key, accidental>> = <<"B", "Flat">>    -> -2
      [] <<key, accidental>> = <<"E", "Flat">>    -> -3
      [] <<key, accidental>> = <<"A", "Flat">>    -> -4
      [] <<key, accidental>> = <<"D", "Flat">>    -> -5
      [] <<key, accidental>> = <<"G", "Flat">>    -> -6
      [] <<key, accidental>> = <<"C", "Flat">>    -> -7
      [] <<key, accidental>> = <<"D", "Sharp">>   -> -3
      [] <<key, accidental>> = <<"E", "Sharp">>   -> -1
      [] <<key, accidental>> = <<"F", "Flat">>    -> 4
      [] <<key, accidental>> = <<"G", "Sharp">>   -> -4
      [] <<key, accidental>> = <<"A", "Sharp">>   -> -2
      [] <<key, accidental>> = <<"B", "Sharp">>   -> 0

\* KeySignature::new
KeySignatureNew(key, accidental, mode) ==
    [key |-> key, accidental |-> accidental, mode |-> mode,
     num_of_accidentals |-> get_num_of_accidentals_from_key_signature(key, accidental)]

\* Mode::to_number
ModeToNumber(mode) == IF mode = "Major" THEN 0 ELSE 1

\* KeySignatureEvent::from_bytes
KeySignatureFromBytes(data, delta_time, time_division, tempo, oc) ==
    IF calculate_time_duration(delta_time, time_division, tempo, oc).panic THEN Panic
    ELSE IF Len(data) < 4 THEN Panic
    ELSE LET ks == get_key_signature_from_num_of_accidentals(AsI8(At(data, 3)))
         IN  IF ks.tag = "err" THEN ks
             ELSE IF Len(data) < 5 THEN Panic
             ELSE IF At(data, 4) > 1 THEN Err("InvalidKeySignature")
             ELSE Ok([MkEvent("KeySignature", 0, KEY_SIGNATURE_SIZE, delta_time, <<>>)
                        EXCEPT !.key_signature =
                            KeySignatureNew(ks.val[1], ks.val[2],
                                            IF At(data, 4) = 0 THEN "Major" ELSE "Minor")])

-----------------------------------------------------------------------------
(* Event::to_bytes and Event::to_bytes_delta_time                          *)

\* (denominator as f64).log2() as u8: the floor of the logarithm; log2(0) is
\* -infinity and the cast saturates to 0
RECURSIVE Log2AsU8(_)
Log2AsU8(d) == IF d <= 1 THEN 0 ELSE 1 + Log2AsU8(d \div 2)

\* the three low bytes of bpm_to_microseconds(tempo).to_be_bytes()
TempoBytes(tempo) ==
    LET micro == bpm_to_microseconds(tempo)
    IN  <<(micro \div 65536) % 256, (micro \div 256) % 256, micro % 256>>

\* the bytes of a text or sequencer-specific event: FF, type, the VLQ of
\* text_size, the text
LengthPrefixedBytes(event) ==
    <<METAEVENT_BYTE, event_type(event)>> \o from_vlq_to_bytes(event.text_size) \o event.data

\* Event::to_bytes
to_bytes(event) ==
    CASE event.kind \in ChannelVoiceKinds ->
            <<BitOr(event_type(event), event.channel)>> \o event.data
      [] event.kind \in TextKinds \cup {"SequencerSpecific"} -> LengthPrefixedBytes(event)
      \* FF 00 02, then sequence_number.to_be_bytes(), two bytes
      [] event.kind = "SequenceNumber" -> <<255, 0, 2>> \o U16Bytes(event.data[1])
      [] event.kind = "MidiChannelPrefix" ->
            <<METAEVENT_BYTE, event_type(event), 1>> \o event.data
      [] event.kind = "MidiPort" ->
            <<METAEVENT_BYTE, event_type(event), MIDI_PORT_SIZE - 3>> \o event.data
      [] event.kind = "EndOfTrack" ->
            <<METAEVENT_BYTE, event_type(event), END_OF_TRACK_SIZE - 3>>
      [] event.kind = "SetTempo" ->
            <<METAEVENT_BYTE, event_type(event), SET_TEMPO_SIZE - 3>> \o TempoBytes(event.tempo)
      [] event.kind = "SMPTEOffset" ->
            <<METAEVENT_BYTE, event_type(event), SMPTE_OFFSET_SIZE - 3>> \o event.data
      [] event.kind = "TimeSignature" ->
            <<METAEVENT_BYTE, event_type(event), TIME_SIGNATURE_SIZE - 3,
              event.data[1], Log2AsU8(event.data[2]), event.data[3], event.data[4]>>
      [] event.kind = "KeySignature" ->
            <<METAEVENT_BYTE, event_type(event), KEY_SIGNATURE_SIZE - 3,
              AsU8(event.key_signature.num_of_accidentals),
              ModeToNumber(event.key_signature.mode)>>

\* Event::to_bytes_delta_time: the VLQ of delta_time, then the bytes each module
\* writes after it; MidiChannelPrefixEvent writes 0x20 where to_bytes writes 0x01
to_bytes_delta_time(event) ==
    from_vlq_to_bytes(event.delta_time) \o
        (IF event.kind = "MidiChannelPrefix"
         THEN <<METAEVENT_BYTE, event_type(event), 32>> \o event.data
         ELSE to_bytes(event))

-----------------------------------------------------------------------------
(* src/src/track.rs: the event dispatchers                                 *)

\* parse_meta_event: data[1] selects the meta-event
parse_meta_event(data, delta_time, time_division, tempo, oc) ==
    IF Len(data) < 2 THEN Panic
    ELSE LET t == At(data, 1)
         IN  CASE t = 0   -> SequenceNumberFromBytes(data, delta_time, time_division, tempo, oc)
               [] t = 1   -> TextFromBytes(data, delta_time, time_division, tempo, oc)
               [] t = 2   -> CopyRightNoticeFromBytes(data, delta_time, time_division, tempo, oc)
               [] t = 3   -> TrackNameFromBytes(data, delta_time, time_division, tempo, oc)
               [] t = 4   -> InstrumentNameFromBytes(data, delta_time, time_division, tempo, oc)
               [] t = 5   -> LyricFromBytes(data, delta_time, time_division, tempo, oc)
               [] t = 6   -> MarkerFromBytes(data, delta_time, time_division, tempo, oc)
               [] t = 7   -> CuePointFromBytes(data, delta_time, time_division, tempo, oc)
               [] t = 32  -> MidiChannelPrefixFromBytes(data, delta_time, time_division, tempo, oc)
               [] t = 33  -> MidiPortFromBytes(data, delta_time, time_division, tempo, oc)
               [] t = 47  -> EndOfTrackFromBytes(data, delta_time, time_division, tempo, oc)
               [] t = 81  -> SetTempoFromBytes(data, delta_time, time_division, tempo, oc)
               [] t = 84  -> SMPTEOffsetFromBytes(data, delta_time, time_division, tempo, oc)
               [] t = 88  -> TimeSignatureFromBytes(data, delta_time, time_division, tempo, oc)
               [] t = 89  -> KeySignatureFromBytes(data, delta_time, time_division, tempo, oc)
               [] t = 127 -> SequencerSpecificFromBytes(data, delta_time, time_division, tempo, oc)
               [] OTHER   -> Err("NotImplemented")

\* parse_event: 0xFF is a meta-event, otherwise the high nibble selects the kind
parse_event(status_byte, data, delta_time, time_division, tempo, oc) ==
    IF status_byte = 255 THEN parse_meta_event(data, delta_time, time_division, tempo, oc)
    ELSE LET type == BitAnd(status_byte, EVENT_MASK) \div 16
         IN  CASE type = 9  -> NoteOnFromBytes(data, delta_time, time_division, tempo, oc)
               [] type = 8  -> NoteOffFromBytes(data, delta_time, time_division, tempo, oc)
               [] type = 10 -> PolyphonicKeyPressureFromBytes(data, delta_time, time_division,
                                                              tempo, oc)
               [] type = 11 -> ControlChangeFromBytes(data, delta_time, time_division, tempo, oc)
               [] type = 12 -> ProgramChangeFromBytes(data, delta_time, time_division, tempo, oc)
               [] type = 13 -> ChannelPressureFromBytes(data, delta_time, time_division, tempo, oc)
               [] type = 14 -> PitchBendChangeFromBytes(data, delta_time, time_division, tempo, oc)
               [] OTHER     -> Err("NotImplemented")

\* parse_running_status_data: only Note On and Control Change are handled
parse_running_status_data(running_status, channel, data, delta_time, time_division, tempo, oc) ==
    CASE running_status \div 16 = 9  ->
            NoteOnNewFromStatus(data, delta_time, channel, time_division, tempo, oc)
      [] running_status \div 16 = 11 ->
            ControlChangeNewFromStatus(data, channel, time_division, tempo, oc)
      [] OTHER -> Err("InvalidEventBytes")

\* validate_track_header_chunk_bytes, on the four bytes
validate_track_header_chunk_bytes(bytes) == IF bytes = MTrk THEN Ok(NoVal) ELSE Err("InvalidHeader")

-----------------------------------------------------------------------------
(* Harness state left alone by a specification that does not use it        *)

VlqIdle ==
    /\ vlq_pc = "idle"
    /\ vlq_value = 0
    /\ vlq_bytes = <<>>
    /\ vlq_decoded = [panic |-> FALSE, value |-> 0, n |-> 0]

HdrIdle ==
    /\ hdr_pc = "idle"
    /\ hdr_bytes = <<>>
    /\ md_result = NoResult
    /\ fh_result = NoResult

EvIdle ==
    /\ ev_pc = "idle"
    /\ ev_data = <<>>
    /\ ev_delta = 0
    /\ ev_result = NoResult
    /\ ev_bytes = <<>>
    /\ ev_bytes_dt = <<>>

FileIdle ==
    /\ pc = "idle"
    /\ midi_file = <<>>
    /\ meta_data = NoResult
    /\ result = NoResult
    /\ list_data = <<>>
    /\ list_position = 0
    /\ list_tempo = 0
    /\ track_list = <<>>
    /\ t_data = <<>>
    /\ t_size = 0
    /\ t_position = 0
    /\ t_running_status = 0
    /\ t_channel = 0
    /\ t_events = <<>>

RdIdle ==
    /\ rd_pc = "idle"
    /\ rd_reader = [data |-> <<>>, pos |-> 0, len |-> 0]
    /\ rd_op = [name |-> "", arg |-> [hi |-> 0, lo |-> 0]]
    /\ rd_result = [tag |-> "none", err |-> "", bytes |-> <<>>, value |-> 0]
    /\ rd_steps = 0

TwIdle ==
    /\ now = 0
    /\ tw_pc = "idle"
    /\ tw_data = <<>>
    /\ tw_delta = 0
    /\ tw_first = NoResult
    /\ tw_second = NoResult

TdIdle ==
    /\ td_pc = "idle"
    /\ td_delta = 0
    /\ td_division = PulsesPerQuarterNote(0)
    /\ td_tempo = 0
    /\ td_result = [panic |-> FALSE, ticks_per_quarter_note |-> 0,
                    time_duration |-> [secs |-> 0, nanos |-> 0]]

-----------------------------------------------------------------------------
(* SpecVlq: from_vlq_to_bytes, then from_bytes_to_vlq on its output        *)

\* every value up to MaxVlqValue, and every value made of the 7-bit groups
\* 0, 1, 64 and 127 in up to four groups (127, 128, 16383, 16384, 2097151,
\* 2097152 and 0x0FFFFFFF among them), and two values that need five groups
MaxVlqValue == 300
VlqGroups == {0, 1, 64, 127}
VlqValues ==
    (0..MaxVlqValue)
    \cup {g0 + 128 * g1 + 16384 * g2 + 2097152 * g3 :
             g0 \in VlqGroups, g1 \in VlqGroups, g2 \in VlqGroups, g3 \in VlqGroups}
    \cup {268435456, 2147483647}

InitVlq ==
    /\ overflow_checks \in BOOLEAN
    /\ vlq_pc = "in"
    /\ vlq_value \in VlqValues
    /\ vlq_bytes = <<>>
    /\ vlq_decoded = [panic |-> FALSE, value |-> 0, n |-> 0]
    /\ HdrIdle
    /\ EvIdle
    /\ FileIdle
    /\ RdIdle
    /\ TwIdle
    /\ TdIdle

VlqEncode ==
    /\ vlq_pc = "in"
    /\ vlq_bytes' = from_vlq_to_bytes(vlq_value)
    /\ vlq_pc' = "encoded"
    /\ UNCHANGED <<overflow_checks, vlq_value, vlq_decoded, hdr_vars, ev_vars, file_vars, rd_vars, tw_vars, td_vars>>

VlqDecode ==
    /\ vlq_pc = "encoded"
    /\ vlq_decoded' = from_bytes_to_vlq(vlq_bytes, overflow_checks)
    /\ vlq_pc' = "decoded"
    /\ UNCHANGED <<overflow_checks, vlq_value, vlq_bytes, hdr_vars, ev_vars, file_vars, rd_vars, tw_vars, td_vars>>

NextVlq == VlqEncode \/ VlqDecode

SpecVlq == InitVlq /\ [][NextVlq]_vars

-----------------------------------------------------------------------------
(* SpecHeader: MetaData::new and MidiFileHeader::new_from_reader on the    *)
(* same header bytes                                                       *)

MaxFormat == 3      \* formats 0..MaxFormat are tried (0, 1, 2 are valid)
MaxHdrTracks == 2   \* track counts 0..MaxHdrTracks are tried

HeaderBytes(magic, length, format, ntracks, b0, b1) ==
    magic \o <<0, 0, 0, length>> \o U16Bytes(format) \o U16Bytes(ntracks) \o <<b0, b1>>

CanonicalHeader == HeaderBytes(MThd, 6, 1, 1, 0, 96)

HeaderInputs ==
    \* a good magic and length, every format, track count and first division byte
    {HeaderBytes(MThd, 6, f, n, b0, b1) :
        f \in 0..MaxFormat, n \in 0..MaxHdrTracks, b0 \in Byte, b1 \in {0, 8}}
    \* a bad magic or length
    \cup {HeaderBytes(m, l, f, n, b0, 96) :
        m \in {MThd, MTrk}, l \in {6, 7}, f \in 0..MaxFormat, n \in 0..MaxHdrTracks,
        b0 \in {0, 232}}
    \* a header cut short
    \cup {SubSeq(CanonicalHeader, 1, k) : k \in 0..13}

InitHeader ==
    /\ overflow_checks \in BOOLEAN
    /\ hdr_pc = "in"
    /\ hdr_bytes \in HeaderInputs
    /\ md_result = NoResult
    /\ fh_result = NoResult
    /\ VlqIdle
    /\ EvIdle
    /\ FileIdle
    /\ RdIdle
    /\ TwIdle
    /\ TdIdle

\* MetaData::new(&hdr_bytes)
HdrMetaDataNew ==
    /\ hdr_pc = "in"
    /\ md_result = NoResult
    /\ md_result' = MetaDataNew(hdr_bytes, overflow_checks)
    /\ UNCHANGED <<overflow_checks, hdr_pc, hdr_bytes, fh_result, vlq_vars, ev_vars, file_vars, rd_vars, tw_vars, td_vars>>

\* MidiFileHeader::new_from_reader(&mut ByteReader::new(&hdr_bytes))
HdrNewFromReader ==
    /\ hdr_pc = "in"
    /\ fh_result = NoResult
    /\ fh_result' = new_from_reader(ByteReaderNew(hdr_bytes), overflow_checks).res
    /\ UNCHANGED <<overflow_checks, hdr_pc, hdr_bytes, md_result, vlq_vars, ev_vars, file_vars, rd_vars, tw_vars, td_vars>>

NextHeader == HdrMetaDataNew \/ HdrNewFromReader

SpecHeader == InitHeader /\ [][NextHeader]_vars

-----------------------------------------------------------------------------
(* SpecReader: a ByteReader over ReaderLen bytes and up to MaxReaderOps of *)
(* its operations, with arguments around the length and around 2^64        *)

ReaderLen == 4      \* the number of bytes the reader is made over
MaxReaderOps == 3   \* the most operations in a run

ReaderData == [i \in 1..ReaderLen |-> i]

\* byte counts: few, all that remain, more than remain, u64::MAX
ReaderCounts == {0, 1, 2, ReaderLen, ReaderLen + 1, -1}

\* positions: inside, the end, past the end, u64::MAX
ReaderPositions == {0, 2, ReaderLen, ReaderLen + 1, -1}

\* moves of test_move_pos_error, and 2^64 and -2^64
ReaderMoves ==
    {I128(0, d) : d \in {-3, -1, 1, 2, ReaderLen + 1, 1000}} \cup {I128(1, 0), I128(-1, 0)}

InitReader ==
    /\ overflow_checks \in BOOLEAN
    /\ rd_pc = "run"
    /\ rd_reader = ByteReaderNew(ReaderData)
    /\ rd_op = [name |-> "new", arg |-> I128(0, 0)]
    /\ rd_result = [tag |-> "none", err |-> "", bytes |-> <<>>, value |-> 0]
    /\ rd_steps = 0
    /\ VlqIdle
    /\ HdrIdle
    /\ EvIdle
    /\ FileIdle
    /\ TwIdle
    /\ TdIdle

\* an operation can be called: no panic so far, and fewer than MaxReaderOps calls
RdReady == rd_pc = "run" /\ rd_steps < MaxReaderOps

\* what an operation returned, as the harness keeps it: the tag and the error, and
\* the value as bytes (a Vec<u8>) or as value (an integer); () has neither
RdResult(res, type) ==
    [tag   |-> res.tag,
     err   |-> res.err,
     bytes |-> IF type = "bytes" /\ res.tag = "ok" THEN res.val ELSE <<>>,
     value |-> IF type = "int" /\ res.tag \in {"ok", "some"} THEN res.val ELSE 0]

\* the harness after the operation name(arg) returned out = [res, reader]
RdReturns(name, arg, out, type) ==
    /\ rd_op' = [name |-> name, arg |-> arg]
    /\ rd_result' = RdResult(out.res, type)
    /\ rd_reader' = out.reader
    /\ rd_pc' = IF out.res.tag = "panic" THEN "panicked" ELSE "run"
    /\ rd_steps' = rd_steps + 1
    /\ UNCHANGED <<overflow_checks, vlq_vars, hdr_vars, ev_vars, file_vars, tw_vars, td_vars>>

RdGetNextByte ==
    /\ RdReady
    /\ RdReturns("get_next_byte", I128(0, 0), get_next_byte(rd_reader), "int")

RdPeek ==
    /\ RdReady
    /\ RdReturns("peek", I128(0, 0), [res |-> peek(rd_reader), reader |-> rd_reader], "int")

RdGetNextBytes ==
    /\ RdReady
    /\ \E n \in ReaderCounts :
          RdReturns("get_next_bytes", I128(0, n),
                    get_next_bytes(rd_reader, n, overflow_checks), "bytes")

RdGetNextU16 ==
    /\ RdReady
    /\ RdReturns("get_next_u16", I128(0, 2), get_next_u16(rd_reader, overflow_checks), "int")

RdGetNextU32 ==
    /\ RdReady
    /\ RdReturns("get_next_u32", I128(0, 4), get_next_u32(rd_reader, overflow_checks), "int")

RdSeek ==
    /\ RdReady
    /\ \E p \in ReaderPositions :
          RdReturns("seek", I128(0, p), [res |-> Ok(NoVal), reader |-> seek(rd_reader, p)],
                    "unit")

RdMovePos ==
    /\ RdReady
    /\ \E d \in ReaderMoves : RdReturns("move_pos", d, move_pos(rd_reader, d), "unit")

RdNumBytesRemaining ==
    /\ RdReady
    /\ RdReturns("num_bytes_remaining", I128(0, 0),
                 [res    |-> num_bytes_remaining(rd_reader, overflow_checks),
                  reader |-> rd_reader], "int")

NextReader ==
    \/ RdGetNextByte
    \/ RdPeek
    \/ RdGetNextBytes
    \/ RdGetNextU16
    \/ RdGetNextU32
    \/ RdSeek
    \/ RdMovePos
    \/ RdNumBytesRemaining

SpecReader == InitReader /\ [][NextReader]_vars

-----------------------------------------------------------------------------
(* SpecEvent: parse_event on the bytes of one event, then to_bytes and     *)
(* to_bytes_delta_time on the event it returns                              *)

\* what Track::get_track_list hands to every event: 96 pulses per quarter
\* note and a tempo of 120
DEFAULT_PULSES == 96
DEFAULT_TEMPO == 120
DefaultTimeDivision == PulsesPerQuarterNote(DEFAULT_PULSES)

MaxTextLen == 256   \* the longest text payload tried

\* text lengths around the one-byte and two-byte VLQ limit and the u8 limit
TextLens == {0, 1, 2, 127, 128, 251, 252, MaxTextLen}

LengthPrefixedTypes == {1, 2, 3, 4, 5, 6, 7, 127}

ChannelVoiceInputs ==
    {<<status * 16 + ch, d1, d2>> :
        status \in 7..15, ch \in {0, 5}, d1 \in {0, 60}, d2 \in {0, 64}}
    \cup {<<status * 16>> : status \in 8..14}
    \cup {<<status * 16, 60>> : status \in 8..14}

LengthPrefixedInputs ==
    \* the length as from_vlq_to_bytes writes it, then that many bytes
    {<<255, t>> \o from_vlq_to_bytes(n) \o Repeat(65, n) :
        t \in LengthPrefixedTypes, n \in TextLens}
    \* the length bytes 81 00, then one byte or 128 bytes
    \cup {<<255, t, 129, 0>> \o Repeat(65, n) : t \in LengthPrefixedTypes, n \in {1, 128}}
    \* a payload that is no UTF-8, and a payload cut short
    \cup {<<255, t, 1, 255>> : t \in LengthPrefixedTypes}
    \cup {<<255, t, 5, 65, 65>> : t \in LengthPrefixedTypes}

FixedMetaInputs ==
    {<<255, 0, 2, 0, 5>>, <<255, 47, 0>>, <<255, 81, 3, 7, 161, 32>>, <<255, 81, 3, 0, 0, 0>>,
     <<255, 81, 3, 255, 255, 255>>, <<255, 81, 3, 7>>, <<255, 84, 5, 1, 2, 3, 4, 5>>,
     <<255, 84, 5, 1, 2>>, <<255, 96, 0>>, <<255>>}
    \cup {<<255, t, 1, ch>> : t \in {32, 33}, ch \in {0, 2, 15}}
    \cup {<<255, 88, 4, nn, dd, 24, 8>> : nn \in {3, 4}, dd \in 0..8}
    \cup {<<255, 89, 2, sf, mi>> : sf \in Byte, mi \in {0, 1, 2, 128, 255}}
    \cup {<<255, 0, 2, hi, lo>> : hi \in {0, 1, 255}, lo \in {0, 5, 255}}
    \cup {<<255, 89, 2, sf>> : sf \in {0, 8}}

EventInputs == ChannelVoiceInputs \cup LengthPrefixedInputs \cup FixedMetaInputs

EventDeltas == {0, 96, 128, 16384}

InitEvent ==
    /\ overflow_checks \in BOOLEAN
    /\ ev_pc = "in"
    /\ ev_data \in EventInputs
    /\ ev_delta \in EventDeltas
    /\ ev_result = NoResult
    /\ ev_bytes = <<>>
    /\ ev_bytes_dt = <<>>
    /\ VlqIdle
    /\ HdrIdle
    /\ FileIdle
    /\ RdIdle
    /\ TwIdle
    /\ TdIdle

\* parse_event(data[0], &data, delta_time, PulsesPerQuarterNote(96), 120)
EvParseEvent ==
    /\ ev_pc = "in"
    /\ ev_result' = parse_event(At(ev_data, 0), ev_data, ev_delta, DefaultTimeDivision,
                                DEFAULT_TEMPO, overflow_checks)
    /\ ev_pc' = "parsed"
    /\ UNCHANGED <<overflow_checks, ev_data, ev_delta, ev_bytes, ev_bytes_dt,
                   vlq_vars, hdr_vars, file_vars, rd_vars, tw_vars, td_vars>>

\* event.to_bytes()
EvToBytes ==
    /\ ev_pc = "parsed"
    /\ ev_result.tag = "ok"
    /\ ev_bytes' = to_bytes(ev_result.val)
    /\ ev_pc' = "bytes"
    /\ UNCHANGED <<overflow_checks, ev_data, ev_delta, ev_result, ev_bytes_dt,
                   vlq_vars, hdr_vars, file_vars, rd_vars, tw_vars, td_vars>>

\* event.to_bytes_delta_time()
EvToBytesDeltaTime ==
    /\ ev_pc = "bytes"
    /\ ev_bytes_dt' = to_bytes_delta_time(ev_result.val)
    /\ ev_pc' = "serialized"
    /\ UNCHANGED <<overflow_checks, ev_data, ev_delta, ev_result, ev_bytes,
                   vlq_vars, hdr_vars, file_vars, rd_vars, tw_vars, td_vars>>

NextEvent == EvParseEvent \/ EvToBytes \/ EvToBytesDeltaTime

SpecEvent == InitEvent /\ [][NextEvent]_vars

-----------------------------------------------------------------------------
(* SpecClock: NoteOnEvent::from_bytes twice on the same bytes, and the     *)
(* monotonic clock that both calls read                                    *)

MaxClock == 2   \* the clock advances at most this far

ClockInputs ==
    {<<144 + ch, d1, d2>> : ch \in {0, 5}, d1 \in {0, 60, 127}, d2 \in {0, 64}}
    \cup {<<144>>, <<144, 60>>}

InitClock ==
    /\ overflow_checks \in BOOLEAN
    /\ now = 0
    /\ tw_pc = "in"
    /\ tw_data \in ClockInputs
    /\ tw_delta \in {0, 96}
    /\ tw_first = NoResult
    /\ tw_second = NoResult
    /\ VlqIdle
    /\ HdrIdle
    /\ EvIdle
    /\ FileIdle
    /\ RdIdle
    /\ TdIdle

\* time passes: before, between and after the calls
ClockTick ==
    /\ tw_pc # "idle"
    /\ now < MaxClock
    /\ now' = now + 1
    /\ UNCHANGED <<overflow_checks, tw_pc, tw_data, tw_delta, tw_first, tw_second,
                   vlq_vars, hdr_vars, ev_vars, file_vars, rd_vars, td_vars>>

\* NoteOnEvent::from_bytes(&tw_data, tw_delta, PulsesPerQuarterNote(96), 120)
TwParseFirst ==
    /\ tw_pc = "in"
    /\ tw_first' = NoteOnEventFromBytes(tw_data, tw_delta, DefaultTimeDivision, DEFAULT_TEMPO,
                                        overflow_checks, now)
    /\ tw_pc' = "first"
    /\ UNCHANGED <<overflow_checks, now, tw_data, tw_delta, tw_second,
                   vlq_vars, hdr_vars, ev_vars, file_vars, rd_vars, td_vars>>

\* the same call again
TwParseSecond ==
    /\ tw_pc = "first"
    /\ tw_second' = NoteOnEventFromBytes(tw_data, tw_delta, DefaultTimeDivision, DEFAULT_TEMPO,
                                         overflow_checks, now)
    /\ tw_pc' = "second"
    /\ UNCHANGED <<overflow_checks, now, tw_data, tw_delta, tw_first,
                   vlq_vars, hdr_vars, ev_vars, file_vars, rd_vars, td_vars>>

NextClock == ClockTick \/ TwParseFirst \/ TwParseSecond

SpecClock == InitClock /\ [][NextClock]_vars

-----------------------------------------------------------------------------
(* SpecDuration: calculate_time_duration on a division, a delta-time and a *)
(* tempo                                                                   *)

MaxPulses == 480   \* the pulses per quarter note of the inputs go up to this

\* the four frame rates with every ticks_per_frame, and a few pulse counts
DurationDivisions ==
    {SMPTE(fps, ticks_per_frame) : fps \in {24, 25, 29, 30}, ticks_per_frame \in Byte}
    \cup {PulsesPerQuarterNote(p) : p \in {1, 96, MaxPulses}}

InitDuration ==
    /\ overflow_checks \in BOOLEAN
    /\ td_pc = "in"
    /\ td_delta \in {0, 96}
    /\ td_division \in DurationDivisions
    /\ td_tempo \in {60, DEFAULT_TEMPO}
    /\ td_result = [panic |-> FALSE, ticks_per_quarter_note |-> 0,
                    time_duration |-> [secs |-> 0, nanos |-> 0]]
    /\ VlqIdle
    /\ HdrIdle
    /\ EvIdle
    /\ FileIdle
    /\ RdIdle
    /\ TwIdle

\* calculate_time_duration(td_delta, td_division, td_tempo)
TdCalculate ==
    /\ td_pc = "in"
    /\ td_result' = calculate_time_duration(td_delta, td_division, td_tempo, overflow_checks)
    /\ td_pc' = "done"
    /\ UNCHANGED <<overflow_checks, td_delta, td_division, td_tempo,
                   vlq_vars, hdr_vars, ev_vars, file_vars, rd_vars, tw_vars>>

NextDuration == TdCalculate

SpecDuration == InitDuration /\ [][NextDuration]_vars

-----------------------------------------------------------------------------
(* src/src/track.rs and src/src/lib.rs: Track::new, Track::get_track_list  *)
(* and Midi::new, one action per loop iteration                            *)

\* Track::new before its loop, on the bytes from the chunk header on: the
\* magic, the size, and the slice &data[8..track_size + 8]
TrackNewPrologue(chunk) ==
    IF Len(chunk) < 4 THEN Panic
    ELSE IF validate_track_header_chunk_bytes(Slice(chunk, 0, 4)).tag = "err"
    THEN Err("InvalidHeader")
    ELSE IF Len(chunk) < 8 THEN Panic
    ELSE LET track_size == U32(At(chunk, 4), At(chunk, 5), At(chunk, 6), At(chunk, 7))
         IN  IF track_size + 8 > Len(chunk) THEN Panic
             ELSE Ok([data |-> Slice(chunk, 8, track_size + 8), track_size |-> track_size])

\* the outcome of one iteration of the while loop of Track::new
Iteration(res, position, running_status, channel) ==
    [res |-> res, position |-> position, running_status |-> running_status,
     channel |-> channel]

\* the end of an iteration that took the two data bytes of a running status:
\* the event is pushed and position += 2
RunningStatusOutcome(event, position, pos, running_status, channel) ==
    IF event.tag # "ok"
    THEN Iteration(event, position, running_status, channel)
    ELSE Iteration(event, pos + 2, running_status, channel)

\* a variant of the end of such an iteration that pushes the event and leaves the
\* position where the iteration found it
EventOutcomeKeepingPosition(event, position, pos, running_status, channel) ==
    Iteration(event, position, running_status, channel)

\* the end of an iteration that parsed an event with its status byte: position +=
\* event.get_event_size(), and the event becomes the running status if it allows
EventOutcome(event, position, pos, running_status, channel) ==
    IF event.tag # "ok"
    THEN Iteration(event, position, running_status, channel)
    ELSE IF is_running_status_allowed(event.val)
    THEN Iteration(event, pos + get_event_size(event.val), event_type(event.val),
                   get_channel(event.val))
    ELSE Iteration(event, pos + get_event_size(event.val), running_status, channel)

\* an iteration of the while loop of Track::new after its delta-time (vlq) has
\* been read: either the two data bytes of a running status or an event with its
\* status byte
AfterDeltaTime(vlq, data, position, running_status, channel, tempo, oc) ==
    IF vlq.panic THEN Iteration(Panic, position, running_status, channel)
    ELSE IF position + vlq.n >= Len(data)
    THEN Iteration(Panic, position, running_status, channel)
    ELSE IF is_msb_zero(At(data, position + vlq.n)) /\ position + vlq.n + 1 >= Len(data)
    THEN Iteration(Panic, position, running_status, channel)
    ELSE IF /\ is_msb_zero(At(data, position + vlq.n))
            /\ is_msb_zero(At(data, position + vlq.n + 1))
            /\ running_status # 0
    THEN RunningStatusOutcome(
             parse_running_status_data(running_status, channel, data, vlq.value,
                                       DefaultTimeDivision, tempo, oc),
             position, position + vlq.n, running_status, channel)
    ELSE EventOutcome(
             parse_event(At(data, position + vlq.n), SliceFrom(data, position + vlq.n),
                         vlq.value, DefaultTimeDivision, tempo, oc),
             position, position + vlq.n, running_status, channel)

\* one iteration of the while loop of Track::new
TrackLoopBody(data, position, running_status, channel, tempo, oc) ==
    AfterDeltaTime(from_bytes_to_vlq(SliceFrom(data, position), oc), data, position,
                   running_status, channel, tempo, oc)

\* Midi::new up to the call of Track::get_track_list: the header from the first
\* 14 bytes, the track data from the rest
MidiNew ==
    /\ pc = "start"
    /\ IF Len(midi_file) < 14
       THEN /\ result' = Panic
            /\ pc' = "done"
            /\ UNCHANGED <<meta_data, list_vars>>
       ELSE /\ meta_data' = MetaDataNew(Slice(midi_file, 0, 14), overflow_checks)
            /\ IF meta_data'.tag # "ok"
               THEN /\ result' = [tag |-> meta_data'.tag, err |-> meta_data'.err,
                                  val |-> NoVal]
                    /\ pc' = "done"
                    /\ UNCHANGED list_vars
               ELSE /\ list_data' = SliceFrom(midi_file, 14)
                    /\ list_position' = 0
                    /\ list_tempo' = DEFAULT_TEMPO
                    /\ track_list' = <<>>
                    /\ pc' = "get_track_list"
                    /\ UNCHANGED result
    /\ UNCHANGED <<overflow_checks, midi_file, track_vars, vlq_vars, hdr_vars, ev_vars, rd_vars, tw_vars, td_vars>>

\* get_track_list: position < data.len(), and Track::new up to its loop
TrackNew ==
    /\ pc = "get_track_list"
    /\ list_position < Len(list_data)
    /\ \E start \in {TrackNewPrologue(SliceFrom(list_data, list_position))} :
           IF start.tag # "ok"
           THEN /\ result' = start
                /\ pc' = "done"
                /\ UNCHANGED track_vars
           ELSE /\ t_data' = start.val.data
                /\ t_size' = start.val.track_size
                /\ t_position' = 0
                /\ t_running_status' = 0
                /\ t_channel' = 0
                /\ t_events' = <<>>
                /\ pc' = "track"
                /\ UNCHANGED result
    /\ UNCHANGED <<overflow_checks, midi_file, meta_data, list_vars, vlq_vars, hdr_vars,
                   ev_vars, rd_vars, tw_vars, td_vars>>

\* Track::new: one iteration of `while position < track_size`
TrackEvent ==
    /\ pc = "track"
    /\ t_position < t_size
    /\ \E step \in {TrackLoopBody(t_data, t_position, t_running_status, t_channel,
                                  list_tempo, overflow_checks)} :
           IF step.res.tag # "ok"
           THEN /\ result' = step.res
                /\ pc' = "done"
                /\ UNCHANGED track_vars
           ELSE /\ t_events' = Append(t_events, step.res.val)
                /\ t_position' = step.position
                /\ t_running_status' = step.running_status
                /\ t_channel' = step.channel
                /\ UNCHANGED <<pc, result, t_data, t_size>>
    /\ UNCHANGED <<overflow_checks, midi_file, meta_data, list_vars, vlq_vars, hdr_vars,
                   ev_vars, rd_vars, tw_vars, td_vars>>

\* Track::new returns (the loop condition fails); get_track_list takes the tempo
\* it returns, moves past the chunk and pushes the track
TrackReturn ==
    /\ pc = "track"
    /\ t_position >= t_size
    /\ track_list' = Append(track_list, [events |-> t_events, track_size |-> t_size])
    /\ list_position' = list_position + t_size + 8
    /\ pc' = "get_track_list"
    /\ UNCHANGED <<overflow_checks, midi_file, meta_data, result, list_data, list_tempo,
                   track_vars, vlq_vars, hdr_vars, ev_vars, rd_vars, tw_vars, td_vars>>

\* get_track_list returns (position >= data.len()) and Midi::new builds the Midi
MidiReturn ==
    /\ pc = "get_track_list"
    /\ list_position >= Len(list_data)
    /\ result' = Ok([meta_data |-> meta_data.val, tempo |-> DEFAULT_TEMPO,
                     track_list |-> track_list])
    /\ pc' = "done"
    /\ UNCHANGED <<overflow_checks, midi_file, meta_data, list_vars, track_vars, vlq_vars,
                   hdr_vars, ev_vars, rd_vars, tw_vars, td_vars>>

-----------------------------------------------------------------------------
(* Spec: Midi::new on the bytes of a file                                  *)

MaxEvents == 3   \* the most delta-time/event fragments in the payload of a track
MaxTracks == 2   \* the most track chunks in a file

\* a delta-time followed by the bytes of an event, or by two data bytes
Fragments ==
    {<<0, 144, 60, 64>>,             \* 00 90 3C 40     Note On, channel 0
     <<96, 60, 0>>,                  \* 60 3C 00        two data bytes, delta 96
     <<0, 177, 7, 64>>,              \* 00 B1 07 40     Control Change, channel 1
     <<0, 128, 60, 64>>,             \* 00 80 3C 40     Note Off
     <<129, 0, 160, 60, 64>>,        \* 81 00 A0 3C 40  Polyphonic Key Pressure
     <<0, 192, 5>>,                  \* 00 C0 05        Program Change
     <<0, 208, 16>>,                 \* 00 D0 10        Channel Pressure
     <<0, 224, 0, 64>>,              \* 00 E0 00 40     Pitch Bend
     <<0, 255, 47, 0>>,              \* 00 FF 2F 00     End Of Track
     <<0, 255, 81, 3, 7, 161, 32>>,  \* 00 FF 51 03 07 A1 20  Set Tempo
     <<0, 255, 3, 1, 65>>,           \* 00 FF 03 01 41  Track Name "A"
     <<0, 255, 0, 2, 0, 5>>,         \* 00 FF 00 02 00 05  Sequence Number
     <<0, 240>>,                     \* 00 F0           a status with no parser
     <<96>>}                         \* 60              a delta-time and nothing else

\* the concatenation of the first n sequences of a sequence of sequences
RECURSIVE Concat(_, _)
Concat(seqs, n) == IF n = 0 THEN <<>> ELSE Concat(seqs, n - 1) \o seqs[n]

\* every concatenation of at most n fragments
Payloads(n) == {Concat(fs, n) : fs \in [1..n -> Fragments \cup {<<>>}]}

\* u32::to_be_bytes of a length below 65536
U32Bytes(v) == <<0, 0, v \div 256, v % 256>>

TrackChunk(payload) == MTrk \o U32Bytes(Len(payload)) \o payload

FileHeader(format, ntracks) == HeaderBytes(MThd, 6, format, ntracks, 0, 96)

\* payloads around the delta-time, the running status and the meta-events
StatusPayloads ==
    {<<129, 128, 128, 128, 0, 144, 60, 64>>,       \* a delta-time of five bytes, Note On
     <<129, 128, 128, 128, 128, 0, 144, 60, 64>>,  \* a delta-time of six bytes, Note On
     <<0, 60, 64, 0, 255, 47, 0>>,                 \* two data bytes before any status
     <<0, 255, 81, 3, 15, 66, 64, 0, 144, 60, 64, 0, 255, 47, 0>>,
                                                   \* Set Tempo 1000000 (60 BPM), Note On
     <<0, 255, 47, 1, 0>>,                         \* End Of Track with a length of 1
     <<0, 255, 47>>,                               \* End Of Track cut before its length
     <<0, 255, 3, 1, 65, 0, 255, 89, 2, 0, 0, 0, 255, 88, 4, 4, 2, 24, 8,
       0, 255, 84, 5, 0, 0, 0, 0, 0, 0, 255, 32, 1, 0, 0, 255, 33, 1, 0,
       0, 255, 81, 3, 7, 161, 32, 0, 255, 47, 0>>, \* the meta-events that parse
     <<0, 255, 1, 252, 1>> \o Repeat(65, 252)}     \* a Text event of 252 bytes, whose
                                                   \* size 256 does not fit in a u8

\* the chunks of the files with several tracks
SmallChunks ==
    {TrackChunk(<<0, 255, 47, 0>>),
     TrackChunk(<<0, 255, 81, 3, 15, 66, 64>>),
     TrackChunk(<<0, 144, 60, 64, 96, 60, 0>>),
     TrackChunk(<<0, 177, 7, 64, 96, 7, 0, 0, 255, 47, 0>>),
     MThd \o U32Bytes(4) \o <<0, 255, 47, 0>>,
     MTrk \o U32Bytes(5) \o <<0, 255, 47, 0>>}

\* every concatenation of at most n of those chunks
ChunkLists(n) == {Concat(cs, n) : cs \in [1..n -> SmallChunks \cup {<<>>}]}

MidiFiles ==
    \* one track of every payload, after a header that announces one track
    {FileHeader(1, 1) \o TrackChunk(p) : p \in Payloads(MaxEvents) \cup StatusPayloads}
    \* every format and track count, before up to MaxTracks chunks
    \cup {FileHeader(f, n) \o l : f \in {0, 1}, n \in 0..MaxTracks, l \in ChunkLists(MaxTracks)}
    \* a file shorter than its header
    \cup {SubSeq(CanonicalHeader, 1, 10)}

Init ==
    /\ overflow_checks \in BOOLEAN
    /\ pc = "start"
    /\ midi_file \in MidiFiles
    /\ meta_data = NoResult
    /\ result = NoResult
    /\ list_data = <<>>
    /\ list_position = 0
    /\ list_tempo = 0
    /\ track_list = <<>>
    /\ t_data = <<>>
    /\ t_size = 0
    /\ t_position = 0
    /\ t_running_status = 0
    /\ t_channel = 0
    /\ t_events = <<>>
    /\ VlqIdle
    /\ HdrIdle
    /\ EvIdle
    /\ RdIdle
    /\ TwIdle
    /\ TdIdle

Next == MidiNew \/ TrackNew \/ TrackEvent \/ TrackReturn \/ MidiReturn

Spec == Init /\ [][Next]_vars

-----------------------------------------------------------------------------
(* Properties of the VLQ codec (SpecVlq)                                   *)

\* C5: for every v in [0, 0x0FFFFFFF], decoding the encoding of v gives (v, n)
\* with n the length of the encoding and 1 <= n <= 4; and the encoding of 0 is
\* the single byte 0x00.
C5_VlqRoundTrip ==
    /\ (vlq_pc = "decoded" /\ vlq_value <= 268435455) =>
          /\ ~vlq_decoded.panic
          /\ vlq_decoded.value = vlq_value
          /\ vlq_decoded.n = Len(vlq_bytes)
          /\ Len(vlq_bytes) >= 1
          /\ Len(vlq_bytes) <= 4
    /\ (vlq_pc \in {"encoded", "decoded"} /\ vlq_value = 0) => vlq_bytes = <<0>>

\* a three-byte encoding (16384) has been decoded
C5_Witness ==
    /\ vlq_pc = "decoded"
    /\ vlq_value = 16384
    /\ Len(vlq_bytes) = 3
    /\ vlq_decoded.n = 3

\* the MIDI form of a variable-length quantity: the most significant 7-bit group
\* first, the high bit set on every byte but the last
RECURSIVE MidiVlqLeading(_)
MidiVlqLeading(v) ==
    IF v = 0 THEN <<>> ELSE MidiVlqLeading(v \div 128) \o <<128 + (v % 128)>>
MidiVlq(v) == MidiVlqLeading(v \div 128) \o <<v % 128>>

\* C6: from_vlq_to_bytes emits the MIDI big-endian form (128 as 81 00, 16383 as
\* FF 7F, 16384 as 81 80 00), and from_bytes_to_vlq decodes that form.
C6_VlqBigEndian ==
    /\ vlq_pc \in {"encoded", "decoded"} => vlq_bytes = MidiVlq(vlq_value)
    /\ vlq_pc = "decoded" =>
          from_bytes_to_vlq(MidiVlq(vlq_value), overflow_checks).value = vlq_value

-----------------------------------------------------------------------------
(* Properties of the header parsers (SpecHeader)                           *)

\* C9: a header is accepted only if its track count is at least 1 and, for
\* format 0 (SingleTrack), exactly 1; this holds for MetaData::new and for
\* MidiFileHeader::new_from_reader.
C9_HeaderTrackCount ==
    /\ md_result.tag = "ok" =>
          /\ md_result.val.num_of_tracks >= 1
          /\ (md_result.val.file_format = "SINGLE_TRACK" => md_result.val.num_of_tracks = 1)
    /\ fh_result.tag = "ok" =>
          /\ fh_result.val.num_tracks >= 1
          /\ (fh_result.val.format = "SingleTrack" => fh_result.val.num_tracks = 1)

\* the header has the magic, a track count of at least 1 and a format of 0, 1 or
\* 2, so that MetaData::new reaches the division bytes
ReachesDivision ==
    /\ Len(hdr_bytes) = 14
    /\ SubSeq(hdr_bytes, 1, 4) = MThd
    /\ U16(hdr_bytes[11], hdr_bytes[12]) >= 1
    /\ U16(hdr_bytes[9], hdr_bytes[10]) <= 2

\* C10: for division bytes (b0, b1), MetaData::new gives PulsesPerQuarterNote(b0 *
\* 256 + b1) when the high bit of b0 is 0; otherwise fps is the negation of b0 as
\* a signed byte, and the result is SMPTE(fps, b1) for fps in {24, 25, 29, 30} and
\* the error InvalidFPS for every other b0 in 0x80..0xFF.
C10_DivisionBytes ==
    (ReachesDivision /\ md_result.tag # "none") =>
        LET b0  == hdr_bytes[13]
            b1  == hdr_bytes[14]
            fps == 256 - b0
        IN  IF b0 < 128
            THEN /\ md_result.tag = "ok"
                 /\ md_result.val.time_division = PulsesPerQuarterNote(b0 * 256 + b1)
            ELSE IF fps \in {24, 25, 29, 30}
            THEN /\ md_result.tag = "ok"
                 /\ md_result.val.time_division = SMPTE(fps, b1)
            ELSE md_result.tag = "err" /\ md_result.err = "InvalidFPS"

-----------------------------------------------------------------------------
(* Properties of the events (SpecEvent)                                    *)

\* C7: for every event a from_bytes parser produces, get_event_size() is the
\* number of bytes to_bytes() returns.
C7_EventSizeIsLength ==
    ev_pc \in {"bytes", "serialized"} => get_event_size(ev_result.val) = Len(ev_bytes)

\* C8: to_bytes_delta_time() is from_vlq_to_bytes(delta_time) followed by the
\* bytes of to_bytes(); for a MidiChannelPrefix event that is the VLQ, then
\* FF 20 01 and the channel.
C8_DeltaTimePrefix ==
    ev_pc = "serialized" =>
        /\ ev_bytes_dt = from_vlq_to_bytes(get_delta_time(ev_result.val)) \o ev_bytes
        /\ ev_result.val.kind = "MidiChannelPrefix" =>
              ev_bytes_dt = from_vlq_to_bytes(ev_delta) \o <<255, 32, 1>> \o ev_result.val.data

-----------------------------------------------------------------------------
(* Properties of the track and file parse (Spec)                           *)

\* C1: every track that Track::new returned has an event list that ends with an
\* EndOfTrack event and holds no other EndOfTrack: a payload that runs out
\* without one, or that goes on after one, is not returned as a track.
C1_EndsWithOneEndOfTrack ==
    \A i \in 1..Len(track_list) :
        /\ Len(track_list[i].events) > 0
        /\ \A j \in 1..Len(track_list[i].events) :
              (track_list[i].events[j].kind = "EndOfTrack") <=> (j = Len(track_list[i].events))

\* the delta-time read at the current position of the track
DeltaTimeHere == from_bytes_to_vlq(SliceFrom(t_data, t_position), overflow_checks)

\* the iteration at the current position is the one of a held running status: the
\* byte after the delta-time and the byte after it have their MSB clear
RunningStatusHere ==
    /\ pc = "track"
    /\ t_position < t_size
    /\ ~DeltaTimeHere.panic
    /\ t_position + DeltaTimeHere.n + 1 < Len(t_data)
    /\ is_msb_zero(At(t_data, t_position + DeltaTimeHere.n))
    /\ is_msb_zero(At(t_data, t_position + DeltaTimeHere.n + 1))
    /\ t_running_status # 0

\* C2: an iteration of Track::new that finds a data byte after the delta-time
\* while a running status is held emits an event of the kind and channel of that
\* status whose data bytes are the two bytes at the current position; the payload
\* 00 90 3C 40 60 3C 00 gives NoteOn(60, 64) and then NoteOn(60, 0).
C2_RunningStatusData ==
    [][(RunningStatusHere /\ Len(t_events') = Len(t_events) + 1) =>
          /\ event_type(t_events'[Len(t_events')]) = t_running_status
          /\ get_channel(t_events'[Len(t_events')]) = t_channel
          /\ t_events'[Len(t_events')].data =
                 <<At(t_data, t_position + DeltaTimeHere.n),
                   At(t_data, t_position + DeltaTimeHere.n + 1)>>]_vars

\* C3: every event Track::new emits, with a status byte or on a running status,
\* is appended after the events emitted before it and has as get_delta_time()
\* the delta-time decoded just before it.
C3_DeltaTimePreserved ==
    [][(pc = "track" /\ t_events' # t_events) =>
          /\ SubSeq(t_events', 1, Len(t_events)) = t_events
          /\ Len(t_events') = Len(t_events) + 1
          /\ get_delta_time(t_events'[Len(t_events')]) = DeltaTimeHere.value]_vars

\* C4: Midi::new returns a Midi only if the number of tracks parsed is the track
\* count of the header.
C4_TrackCountChecked ==
    (pc = "done" /\ result.tag = "ok") =>
        Len(result.val.track_list) = result.val.meta_data.num_of_tracks

-----------------------------------------------------------------------------
(* Properties of the header parsers, continued (SpecHeader)                *)

\* the 32-bit length field of the header chunk, bytes 4..8
HeaderLengthField == U32(At(hdr_bytes, 4), At(hdr_bytes, 5), At(hdr_bytes, 6), At(hdr_bytes, 7))

\* C11: a header chunk that starts with MThd and whose length field is not 6 is
\* rejected with InvalidDataBounds by MidiFileHeader::new_from_reader and by
\* MetaData::new.
C11_HeaderLengthChecked ==
    (Len(hdr_bytes) >= 14 /\ Slice(hdr_bytes, 0, 4) = MThd /\ HeaderLengthField # 6) =>
        /\ fh_result.tag # "none" => (fh_result.tag = "err" /\ fh_result.err = "InvalidDataBounds")
        /\ md_result.tag # "none" => (md_result.tag = "err" /\ md_result.err = "InvalidDataBounds")

-----------------------------------------------------------------------------
(* Properties of the ByteReader (SpecReader)                               *)

\* C12: after any operations of the reader 0 <= pos <= len, num_bytes_remaining()
\* is len - pos and not negative, and seek(p) with p > len fails with
\* InvalidDataBounds and does not move the position.
C12_PositionWithinLength ==
    rd_pc # "idle" =>
        /\ 0 <= rd_reader.pos /\ rd_reader.pos <= rd_reader.len
        /\ rd_op.name = "num_bytes_remaining" =>
              /\ rd_result.tag = "ok"
              /\ rd_result.value = rd_reader.len - rd_reader.pos
              /\ rd_result.value >= 0
        /\ (rd_op.name = "seek" /\ U64Lt(rd_reader.len, rd_op.arg.lo)) =>
              (rd_result.tag = "err" /\ rd_result.err = "InvalidDataBounds")

\* the position is one the reader is specified to have: 0 <= pos <= len
RdPositionValid == 0 <= rd_reader.pos /\ rd_reader.pos <= rd_reader.len

\* the step is a call of the operation name
RdCalls(name) == rd_steps' = rd_steps + 1 /\ rd_op'.name = name

\* C13: move_pos(d) returns Ok and sets pos to pos + d when 0 <= pos + d <= len,
\* and returns InvalidDataBounds and leaves pos where it was otherwise.
C13_MovePosExactlyInBounds ==
    [][(RdPositionValid /\ RdCalls("move_pos")) =>
          IF /\ rd_op'.arg.hi = 0
             /\ 0 <= rd_reader.pos + rd_op'.arg.lo
             /\ rd_reader.pos + rd_op'.arg.lo <= rd_reader.len
          THEN /\ rd_result'.tag = "ok"
               /\ rd_reader'.pos = rd_reader.pos + rd_op'.arg.lo
          ELSE /\ rd_result'.tag = "err" /\ rd_result'.err = "InvalidDataBounds"
               /\ rd_reader'.pos = rd_reader.pos]_vars

\* the n bytes at the position of the reader
RdNextBytes(n) == [i \in 1..n |-> rd_reader.data[rd_reader.pos + i]]

\* the big-endian integer of a sequence of bytes
RECURSIVE BigEndian(_)
BigEndian(bytes) ==
    IF bytes = <<>> THEN 0
    ELSE 256 * BigEndian(SubSeq(bytes, 1, Len(bytes) - 1)) + bytes[Len(bytes)]

\* C14: get_next_bytes(n), and get_next_u16 / get_next_u32 with n = 2 / 4, return
\* the n bytes at pos (the integers big-endian) and advance pos by n when
\* n <= len - pos, and return EndOfData and leave pos where it was otherwise; peek
\* does not change pos.
C14_GetNextBytesExactlyRemaining ==
    [][(RdPositionValid /\ rd_steps' = rd_steps + 1) =>
          /\ rd_op'.name \in {"get_next_bytes", "get_next_u16", "get_next_u32"} =>
                IF 0 <= rd_op'.arg.lo /\ rd_op'.arg.lo <= rd_reader.len - rd_reader.pos
                THEN /\ rd_result'.tag = "ok"
                     /\ IF rd_op'.name = "get_next_bytes"
                        THEN rd_result'.bytes = RdNextBytes(rd_op'.arg.lo)
                        ELSE rd_result'.value = BigEndian(RdNextBytes(rd_op'.arg.lo))
                     /\ rd_reader'.pos = rd_reader.pos + rd_op'.arg.lo
                ELSE /\ rd_result'.tag = "err" /\ rd_result'.err = "EndOfData"
                     /\ rd_reader'.pos = rd_reader.pos
          /\ rd_op'.name = "peek" => rd_reader'.pos = rd_reader.pos]_vars

-----------------------------------------------------------------------------
(* Properties of the key signature, the time signature and the sequence    *)
(* number (SpecEvent)                                                      *)

\* the bytes handed to the parser are a meta-event of the given type with a
\* payload of n bytes, and the parser has returned
ParsedMeta(type, n) ==
    /\ ev_pc \in {"parsed", "bytes", "serialized"}
    /\ Len(ev_data) = 3 + n
    /\ ev_data[1] = 255
    /\ ev_data[2] = type
    /\ ev_data[3] = n

\* a byte read as a signed 8-bit value
Signed8(b) == IF b >= 128 THEN b - 256 ELSE b

\* C15: KeySignatureEvent::from_bytes succeeds exactly when the sharps/flats byte,
\* read as a signed 8-bit value, is in -7..7 and the mode byte is 0 or 1; every
\* other pair of bytes fails with InvalidKeySignature.
C15_KeySignatureRange ==
    ParsedMeta(89, 2) =>
        IF Signed8(ev_data[4]) \in -7..7 /\ ev_data[5] \in {0, 1}
        THEN ev_result.tag = "ok" /\ ev_result.val.kind = "KeySignature"
        ELSE ev_result.tag = "err" /\ ev_result.err = "InvalidKeySignature"

\* FF 59 02 F9 01 (seven flats, minor) has been parsed to a key signature
C15_Witness ==
    /\ ParsedMeta(89, 2)
    /\ ev_data[4] = 249
    /\ ev_data[5] = 1
    /\ ev_result.tag = "ok"
    /\ ev_result.val.key_signature.key = "C"
    /\ ev_result.val.key_signature.accidental = "Flat"
    /\ ev_result.val.key_signature.mode = "Minor"

Keys == {"C", "D", "E", "F", "G", "A", "B"}
Accidentals == {"Natural", "Sharp", "Flat"}

\* C16: the count of every key the table gives for a count in -7..7 is that count,
\* every one of the 21 pairs of a key and an accidental has a count, and the bytes
\* to_bytes writes for a parsed key signature have the sharps/flats byte and the
\* mode byte that were parsed.
C16_KeySignatureRoundTrip ==
    /\ \A n \in -7..7 :
          LET ks == get_key_signature_from_num_of_accidentals(n)
          IN  /\ ks.tag = "ok"
              /\ get_num_of_accidentals_from_key_signature(ks.val[1], ks.val[2]) = n
    /\ \A key \in Keys, accidental \in Accidentals :
          get_num_of_accidentals_from_key_signature(key, accidental) \in -7..7
    /\ (ParsedMeta(89, 2) /\ ev_pc \in {"bytes", "serialized"}) =>
          /\ ev_bytes = ev_data
          /\ ev_pc = "serialized" => ev_bytes_dt = from_vlq_to_bytes(ev_delta) \o ev_data

\* FF 59 02 FF 00 has been parsed to (F, Natural, Major) and written back
C16_Witness ==
    /\ ParsedMeta(89, 2)
    /\ ev_pc = "bytes"
    /\ ev_data = <<255, 89, 2, 255, 0>>
    /\ ev_result.val.key_signature =
           [key |-> "F", accidental |-> "Natural", mode |-> "Major", num_of_accidentals |-> -1]
    /\ ev_bytes = <<255, 89, 2, 255, 0>>

\* C17: a time signature payload nn dd cc bb is parsed to the numerator nn, the
\* denominator 2^dd, cc clocks and bb 32nd notes, and to_bytes writes the four
\* bytes that were parsed (06 03 24 08 is 6/8, 36 clocks, 8).
C17_TimeSignatureDenominator ==
    ParsedMeta(88, 4) =>
        /\ ev_result.tag = "ok"
        /\ ev_result.val.data = <<ev_data[4], 2 ^ ev_data[5], ev_data[6], ev_data[7]>>
        /\ ev_pc \in {"bytes", "serialized"} => ev_bytes = ev_data

\* C18: SequenceNumber::from_bytes on FF 00 02 hi lo returns the sequence number
\* hi * 256 + lo, for every hi and lo.
C18_SequenceNumberParsed ==
    ParsedMeta(0, 2) =>
        /\ ev_result.tag = "ok"
        /\ ev_result.val.kind = "SequenceNumber"
        /\ ev_result.val.data = <<ev_data[4] * 256 + ev_data[5]>>

-----------------------------------------------------------------------------
(* Properties of the track and file parse, continued (Spec)                *)

\* C19: once the header has been parsed, Track::get_track_list and Track::new end
\* with a value or an error for every buffer: they do not panic, whether the
\* declared size of a track ends inside an event, a delta-time or the chunk
\* preface, or is more than the bytes there are.
C19_TrackParseNeverPanics ==
    (pc = "done" /\ meta_data.tag = "ok") => result.tag # "panic"

-----------------------------------------------------------------------------
(* Properties of two parses of one buffer (SpecClock)                      *)

\* C20: two calls of the parser on the same bytes, division and tempo return
\* results that compare equal: both fail alike, or both return events that are
\* equal by the == of the event.
C20_SameBytesSameResult ==
    tw_pc = "second" =>
        /\ tw_first.tag = tw_second.tag
        /\ tw_first.tag = "ok" => NoteOnEventEq(tw_first.val, tw_second.val)

-----------------------------------------------------------------------------
(* Properties of the loop of Track::new (Spec)                             *)

\* the loop of Track::new is about to run an iteration
AtIteration == pc = "track" /\ t_position < t_size

\* the bytes at the current position start with four bytes that have their MSB set
FourContinuationBytesHere ==
    /\ t_position + 3 < Len(t_data)
    /\ \A i \in 0..3 : ~is_msb_zero(At(t_data, t_position + i))

\* C21: a delta-time takes at most four bytes: an iteration of Track::new whose
\* delta-time starts with four bytes that all have their MSB set fails with
\* InvalidVlq, and every other delta-time is decoded from 1 to 4 bytes into a
\* value below 2^28.
C21_VlqAtMostFourBytes ==
    [][AtIteration =>
          IF FourContinuationBytesHere
          THEN pc' = "done" /\ result'.tag = "err" /\ result'.err = "InvalidVlq"
          ELSE /\ ~DeltaTimeHere.panic
               /\ DeltaTimeHere.n \in 1..4
               /\ DeltaTimeHere.value < 268435456]_vars

\* the byte after the delta-time at the current position, the one in status
\* position, is a data byte (MSB clear), and the track has a byte after it
DataByteHere ==
    /\ ~DeltaTimeHere.panic
    /\ t_position + DeltaTimeHere.n + 1 < Len(t_data)
    /\ is_msb_zero(At(t_data, t_position + DeltaTimeHere.n))

\* the iteration at the current position ends the parse with InvalidEventBytes
\* and pushes no event
FailsWithInvalidEventBytes ==
    /\ pc' = "done"
    /\ result'.tag = "err"
    /\ result'.err = "InvalidEventBytes"
    /\ t_events' = t_events

\* C22: an iteration of Track::new that finds a data byte in status position
\* while no running status is held fails with InvalidEventBytes and emits no
\* event for those bytes.
C22_DataByteWithoutStatus ==
    [][(AtIteration /\ DataByteHere /\ t_running_status = 0)
          => FailsWithInvalidEventBytes]_vars

\* the last event Track::new pushed is a meta-event
AfterMetaEvent ==
    /\ Len(t_events) > 0
    /\ t_events[Len(t_events)].kind \notin ChannelVoiceKinds

\* C23: a meta-event clears the held running status: an iteration of Track::new
\* that finds a data byte in status position right after a meta-event fails with
\* InvalidEventBytes, whatever channel voice event came before the meta-event
\* and left its status in running_status.
C23_MetaEventClearsRunningStatus ==
    [][(AtIteration /\ DataByteHere /\ AfterMetaEvent /\ t_running_status # 0)
          => (pc' = "done" /\ result'.tag = "err" /\ result'.err = "InvalidEventBytes")]_vars

\* the byte in status position at the current position
StatusPositionByte == At(t_data, t_position + DeltaTimeHere.n)

\* that byte is the status byte of a channel voice event (0x80..0xEF)
ChannelVoiceStatusHere ==
    /\ ~DeltaTimeHere.panic
    /\ t_position + DeltaTimeHere.n < Len(t_data)
    /\ StatusPositionByte \in 128..239

\* C24: when an iteration of Track::new has parsed a channel voice event with the
\* status byte b, of any of the seven kinds, the held running status is b & 0xF0
\* and the held channel is b & 0x0F; an iteration that takes data bytes on the
\* running status leaves both as they are; and the event pushed by any iteration
\* reports is_running_status_allowed() = true exactly if it is a channel voice
\* event.
C24_RunningStatusHeld ==
    [][(AtIteration /\ pc' = "track" /\ Len(t_events') = Len(t_events) + 1) =>
          /\ ChannelVoiceStatusHere =>
                /\ t_running_status' = BitAnd(StatusPositionByte, 240)
                /\ t_channel' = BitAnd(StatusPositionByte, 15)
          /\ RunningStatusHere =>
                /\ t_running_status' = t_running_status
                /\ t_channel' = t_channel
          /\ is_running_status_allowed(t_events'[Len(t_events')])
                <=> t_events'[Len(t_events')].kind \in ChannelVoiceKinds]_vars

\* the channel voice kind of a status nibble 0x8..0xE, and the number of data
\* bytes of a kind
KindOfNibble(nibble) ==
    CASE nibble = 8  -> "NoteOff"
      [] nibble = 9  -> "NoteOn"
      [] nibble = 10 -> "PolyphonicKeyPressure"
      [] nibble = 11 -> "ControlChange"
      [] nibble = 12 -> "ProgramChange"
      [] nibble = 13 -> "ChannelPressure"
      [] nibble = 14 -> "PitchBendChange"
PayloadLength(kind) == IF kind \in {"ProgramChange", "ChannelPressure"} THEN 1 ELSE 2

\* C25: for every held status nibble 0x8..0xE, an iteration of Track::new that
\* finds a data byte in status position pushes an event of the kind of the held
\* status and moves the position past the delta-time and the data bytes of that
\* kind (2, or 1 for ProgramChange and ChannelPressure).
C25_RunningStatusAllKinds ==
    [][(AtIteration /\ DataByteHere /\ t_running_status \div 16 \in 8..14) =>
          /\ pc' = "track"
          /\ Len(t_events') = Len(t_events) + 1
          /\ t_events'[Len(t_events')].kind = KindOfNibble(t_running_status \div 16)
          /\ t_position' = t_position + DeltaTimeHere.n
                             + PayloadLength(KindOfNibble(t_running_status \div 16))]_vars

\* the tempo in force after a list of events that started at `tempo`: the one of
\* its last SetTempo event if it has one (tempi are fractions num / den)
RECURSIVE TempoAfter(_, _)
TempoAfter(events, tempo) ==
    IF events = <<>> THEN tempo
    ELSE IF events[Len(events)].kind = "SetTempo" THEN events[Len(events)].tempo
    ELSE TempoAfter(SubSeq(events, 1, Len(events) - 1), tempo)

\* the same after a list of tracks
RECURSIVE TempoAfterTracks(_, _)
TempoAfterTracks(tracks, tempo) ==
    IF tracks = <<>> THEN tempo
    ELSE TempoAfter(tracks[Len(tracks)].events,
                    TempoAfterTracks(SubSeq(tracks, 1, Len(tracks) - 1), tempo))

\* C26: the tempo Track::new gives to the parsers of the next event, and the one
\* Track::get_track_list holds between two tracks, starts at 120 BPM and is the
\* tempo of the most recent SetTempo event once one has been parsed.
C26_TempoFollowsSetTempo ==
    pc \in {"track", "get_track_list"} =>
        \E tempo \in {TempoAfter(IF pc = "track" THEN t_events ELSE <<>>,
                                 TempoAfterTracks(track_list,
                                                  [num |-> DEFAULT_TEMPO, den |-> 1]))} :
            list_tempo * tempo.den = tempo.num

\* the byte in status position at the current position is 0xFF
MetaEventHere ==
    /\ ~DeltaTimeHere.panic
    /\ t_position + DeltaTimeHere.n < Len(t_data)
    /\ StatusPositionByte = METAEVENT_BYTE

\* the length of the meta-event at the current position, as its bytes declare
\* it: the VLQ after 0xFF and the type byte
DeclaredLengthHere ==
    from_bytes_to_vlq(SliceFrom(t_data, t_position + DeltaTimeHere.n + 2), overflow_checks)

\* C27: an iteration of Track::new that parses a meta-event, of a fixed-payload
\* kind or a text kind, moves the position past the delta-time, the two bytes
\* 0xFF and type, the bytes of the VLQ length and as many bytes as that length
\* declares, and the position does not pass the declared size of the track.
C27_MetaEventAdvance ==
    [][(AtIteration /\ MetaEventHere /\ pc' = "track") =>
          /\ ~DeclaredLengthHere.panic
          /\ t_position' = t_position + DeltaTimeHere.n + 2
                             + DeclaredLengthHere.n + DeclaredLengthHere.value
          /\ t_position' <= t_size]_vars

-----------------------------------------------------------------------------
(* Properties of the events, continued (SpecEvent)                         *)

\* C28: a channel voice event survives parse_event and to_bytes: for a status
\* byte 0x80..0xEF and the data bytes of its kind, to_bytes() of the parsed event
\* returns the bytes it was parsed from, and parse_event on those bytes returns
\* the same event again.
C28_ChannelVoiceRoundTrip ==
    (/\ ev_pc \in {"bytes", "serialized"}
     /\ ev_data[1] \in 128..239
     /\ Len(ev_data) = get_event_size(ev_result.val)) =>
        /\ ev_bytes = ev_data
        /\ parse_event(ev_bytes[1], ev_bytes, ev_delta, DefaultTimeDivision,
                       DEFAULT_TEMPO, overflow_checks) = ev_result

-----------------------------------------------------------------------------
(* Properties of the loops of Track::new and Track::get_track_list (Spec)  *)

\* C29: both loops make progress.  Every iteration of the loop of Track::new that
\* goes on to another moves the track position forward, and so does not run more
\* often than the track has bytes; every track Track::get_track_list takes moves
\* the position in the file forward, past the track, and so it takes no more
\* tracks than the data has bytes.
C29_PositionsIncrease ==
    [][/\ (AtIteration /\ pc' = "track") =>
             /\ t_position' > t_position
             /\ Len(t_events') = Len(t_events) + 1
             /\ Len(t_events') <= t_position'
             /\ Len(t_events') <= t_size
       /\ (pc = "track" /\ pc' = "get_track_list") =>
             /\ list_position' > list_position
             /\ list_position' <= Len(list_data)
             /\ Len(track_list') = Len(track_list) + 1
             /\ Len(track_list') <= list_position']_vars

\* the parse of a file of two tracks has ended, the second track after three
\* iterations
C29_Witness ==
    /\ pc = "done"
    /\ result.tag = "ok"
    /\ Len(track_list) = 2
    /\ Len(track_list[2].events) = 3
    /\ list_position = Len(list_data)

-----------------------------------------------------------------------------
(* Properties of calculate_time_duration (SpecDuration)                    *)

\* the ticks per quarter note of a division, in unbounded arithmetic
TicksPerQuarter(division) ==
    IF division.kind = "PulsesPerQuarterNote"
    THEN division.pulses
    ELSE (division.fps * division.ticks_per_frame) \div 4

\* C30: calculate_time_duration takes as ticks per quarter note p for
\* PulsesPerQuarterNote(p) and (fps * ticks_per_frame) / 4 for
\* SMPTE(fps, ticks_per_frame), the product computed without overflow, for every
\* fps in {24, 25, 29, 30} and every ticks_per_frame in 0..255: SMPTE(30, 80)
\* gives 600.  (With zero ticks per quarter note no duration exists.)
C30_TicksPerQuarter ==
    td_pc = "done" =>
        /\ td_result.ticks_per_quarter_note = TicksPerQuarter(td_division)
        /\ TicksPerQuarter(td_division) # 0 => ~td_result.panic

====
